---- MODULE Spec2Model ----
(***************************************************************************)
(* Chi-flow core of feng-shui: Grid (grid.js), Simulation.rasterize /      *)
(* rasterizeLine / solve (simulation.js) and ParticleSystem (particles.js).*)
(*                                                                         *)
(* Numbers.  The program computes in IEEE floats; the model computes in    *)
(* fixed point, one unit per array:                                        *)
(*   cells, flowModifier   thousandths        (wall 1.0      = 1000)       *)
(*   sources               ten-thousandths    (door 1.0      = 10000)      *)
(*   potential, vx, vy,                                                    *)
(*   speed                 hundredths         (source*100    = sources)    *)
(*   particle x, y         hundredths of a cell                            *)
(*   Math.random()         hundredths         (0 .. 99)                    *)
(* Division truncates toward zero where the float code divides.            *)
(***************************************************************************)
EXTENDS Integers, Sequences, FiniteSets, TLC

\* ------------------------------------------------------------- bounds ----
width == 6          \* new Grid(width, height); the app uses 200 x 200
height == 6
iterations == 3     \* Simulation.iterations (600 in the code), sweeps of solve()
maxParticles == 1   \* new ParticleSystem(grid, maxParticles); default 1200
MaxTicks == 2       \* update() calls explored per behaviour
MaxPending == 1     \* callbacks queued at once, per kind (timers, animation frames)
Margin == 2         \* cells outside the grid that a segment end may lie
trailLength == 1    \* ParticleSystem.trailLength (24 in the code), entries a trail keeps
undoLimit == 1      \* snapshots saveState keeps on the undo stack (50 in the code)
MaxItems == 2       \* items a drawing holds before the editor is given no more
MaxPlaced == 2      \* furniture items placed per behaviour
MaxCalls == 6       \* calls on the editor explored per behaviour

\* ---------------------------------------------------- program constants --
Wall == 1000                 \* setWall writes 1
DoorStrong == 10000          \* setSource(x, y, 1.0)
DoorWeak == 8000             \* setSource(nx, ny, 0.8)
WindowStrong == 4000         \* setSource(x, y, 0.4)
WindowWeak == 2000           \* setSource(nx, ny, 0.2)
MirrorSource == 3000         \* setSource(gx, gy, 0.3)
PlantModifier == 500         \* setFlowModifier(gx, gy, 0.5)
RugResistance == 150         \* setObstacle(gx, gy, 0.15)
RugModifier == 200           \* setFlowModifier(gx, gy, 0.2)
DefaultResistance == 800     \* item.flowResistance || 0.8
SpawnThreshold == 5000       \* sources > 0.5
PosScale == 100              \* one cell, in the unit of particle and query coordinates
CabinetWidth == 40           \* FURNITURE_CATALOG, type 'cabinet': width
CabinetHeight == 20          \* FURNITURE_CATALOG, type 'cabinet': height
NearThreshold == 8           \* this._nearLine(wx, wy, ..., 8)
gridSize == 10               \* CanvasManager.gridSize

\* ------------------------------------------------------ arithmetic -------
Abs(a) == IF a < 0 THEN -a ELSE a

\* a / b truncated toward zero (b > 0)
Quot(a, b) == IF a >= 0 THEN a \div b ELSE -((-a) \div b)

\* Math.round(n / d) for d > 0: floor(n/d + 1/2)
Round(n, d) == (2 * n + d) \div (2 * d)

\* Math.floor of a fixed-point coordinate
Floor(p) == p \div PosScale

RECURSIVE SqrtIter(_, _)
SqrtIter(n, r) ==
  LET r2 == (r + n \div r) \div 2
  IN IF r2 >= r THEN r ELSE SqrtIter(n, r2)

\* floor(Math.sqrt(n))
Sqrt(n) == IF n <= 0 THEN 0 ELSE SqrtIter(n, n)

\* ------------------------------------------------------------ Grid -------
Cells == 0 .. (width * height - 1)

idx(x, y) == y * width + x

inBounds(x, y) == x >= 0 /\ x < width /\ y >= 0 /\ y < height

Zeros == [i \in Cells |-> 0]

\* the arrays of a newly constructed Grid
NewGrid ==
  [cells |-> Zeros, sources |-> Zeros, potential |-> Zeros, vx |-> Zeros,
   vy |-> Zeros, speed |-> Zeros, flowModifier |-> Zeros]

clearKeepsSources(g) ==
  [cells |-> Zeros, sources |-> g.sources, potential |-> Zeros, vx |-> Zeros,
   vy |-> Zeros, speed |-> Zeros, flowModifier |-> Zeros]

clear(g) ==
  [cells |-> Zeros, sources |-> Zeros, potential |-> Zeros, vx |-> Zeros,
   vy |-> Zeros, speed |-> Zeros, flowModifier |-> Zeros]

setWall(g, x, y) ==
  IF inBounds(x, y) THEN [g EXCEPT !.cells[idx(x, y)] = Wall] ELSE g

setObstacle(g, x, y, resistance) ==
  IF inBounds(x, y) THEN [g EXCEPT !.cells[idx(x, y)] = resistance] ELSE g

setSource(g, x, y, strength) ==
  IF inBounds(x, y) THEN [g EXCEPT !.sources[idx(x, y)] = strength] ELSE g

setFlowModifier(g, x, y, mod) ==
  IF inBounds(x, y) THEN [g EXCEPT !.flowModifier[idx(x, y)] = mod] ELSE g

isWall(g, x, y) ==
  IF ~inBounds(x, y) THEN TRUE ELSE g.cells[idx(x, y)] >= Wall

\* ------------------------------------------------- Simulation.rasterize --
\* toGrid: Math.round((w - roomBounds.x) * (g.width / roomBounds.width))
toGrid(rb, wx, wy) ==
  [gx |-> Round((wx - rb.x) * width, rb.width),
   gy |-> Round((wy - rb.y) * height, rb.height)]

RECURSIVE lineFrom(_, _, _, _, _, _, _, _, _, _)
lineFrom(x0, y0, x1, y1, dx, dy, sx, sy, err, fuel) ==
  IF (x0 = x1 /\ y0 = y1) \/ fuel = 0
  THEN << <<x0, y0>> >>
  ELSE LET e2 == 2 * err
           stepX == e2 > -dy
           stepY == e2 < dx
           errX == IF stepX THEN err - dy ELSE err
           nx == IF stepX THEN x0 + sx ELSE x0
           errY == IF stepY THEN errX + dx ELSE errX
           ny == IF stepY THEN y0 + sy ELSE y0
       IN << <<x0, y0>> >> \o lineFrom(nx, ny, x1, y1, dx, dy, sx, sy, errY, fuel - 1)

\* a variant that rejects a segment whose ends coincide
rasterizeLineSkip(x0, y0, x1, y1) ==
  IF x0 = x1 /\ y0 = y1 THEN << >>
  ELSE lineFrom(x0, y0, x1, y1, Abs(x1 - x0), Abs(y1 - y0),
                IF x0 < x1 THEN 1 ELSE -1, IF y0 < y1 THEN 1 ELSE -1,
                Abs(x1 - x0) - Abs(y1 - y0), 4 * (width + height))

\* a variant that walks along x to the end column and then along y
rasterizeLineAxisFirst(x0, y0, x1, y1) ==
  lineFrom(x0, y0, x1, y0, Abs(x1 - x0), 0, IF x0 < x1 THEN 1 ELSE -1, -1,
           Abs(x1 - x0), 4 * (width + height))
  \o Tail(lineFrom(x1, y0, x1, y1, 0, Abs(y1 - y0), -1, IF y0 < y1 THEN 1 ELSE -1,
                   0 - Abs(y1 - y0), 4 * (width + height)))

\* the cells on which rasterizeLine invokes its callback, in order
rasterizeLine(x0, y0, x1, y1) ==
  LET dx == Abs(x1 - x0)
      dy == Abs(y1 - y0)
      sx == IF x0 < x1 THEN 1 ELSE -1
      sy == IF y0 < y1 THEN 1 ELSE -1
  IN lineFrom(x0, y0, x1, y1, dx, dy, sx, sy, dx - dy, 4 * (width + height))

\* the walk of one segment of the snapshot
segmentLine(rb, seg) ==
  LET a == toGrid(rb, seg.x1, seg.y1)
      b == toGrid(rb, seg.x2, seg.y2)
  IN rasterizeLine(a.gx, a.gy, b.gx, b.gy)

onBorder(x, y) == x = 0 \/ x = width - 1 \/ y = 0 \/ y = height - 1

fillBorderShort(g) ==
  [g EXCEPT !.cells = [i \in Cells |->
      IF onBorder(i % width, i \div width) /\ i # idx(width - 1, height - 1)
      THEN Wall ELSE g.cells[i]]]

\* "Draw all outer edges as walls first"
fillBorder(g) ==
  [g EXCEPT !.cells = [i \in Cells |->
      IF onBorder(i % width, i \div width) THEN Wall ELSE g.cells[i]]]

\* wall callback: the cell and its four orthogonal neighbours
wallAt(g, x, y) ==
  setWall(setWall(setWall(setWall(setWall(g, x, y), x + 1, y), x - 1, y), x, y + 1), x, y - 1)

RECURSIVE wallCells(_, _)
wallCells(g, line) ==
  IF line = << >> THEN g
  ELSE wallCells(wallAt(g, Head(line)[1], Head(line)[2]), Tail(line))

RECURSIVE drawWalls(_, _, _)
drawWalls(g, walls, rb) ==
  IF walls = << >> THEN g
  ELSE drawWalls(wallCells(g, segmentLine(rb, Head(walls))), Tail(walls), rb)

\* a variant that sets the source and leaves the material of the cell
openSourceOnly(g, x, y, strength) ==
  IF inBounds(x, y) THEN [g EXCEPT !.sources[idx(x, y)] = strength] ELSE g

\* g.cells[g.idx(x, y)] = 0; g.setSource(x, y, strength), under inBounds
open(g, x, y, strength) ==
  IF inBounds(x, y)
  THEN [g EXCEPT !.cells[idx(x, y)] = 0, !.sources[idx(x, y)] = strength]
  ELSE g

\* door / window callback: the cell, then [1,0], [-1,0], [0,1], [0,-1]
carveAt(g, x, y, strong, weak) ==
  open(open(open(open(open(g, x, y, strong), x + 1, y, weak), x - 1, y, weak),
            x, y + 1, weak), x, y - 1, weak)

RECURSIVE carveCells(_, _, _, _)
carveCells(g, line, strong, weak) ==
  IF line = << >> THEN g
  ELSE carveCells(carveAt(g, Head(line)[1], Head(line)[2], strong, weak),
                  Tail(line), strong, weak)

RECURSIVE carve(_, _, _, _, _)
carve(g, segs, rb, strong, weak) ==
  IF segs = << >> THEN g
  ELSE carve(carveCells(g, segmentLine(rb, Head(segs)), strong, weak),
             Tail(segs), rb, strong, weak)

\* the body of the furniture loops for one cell of the bounding box
furnishCell(g, item, gx, gy) ==
  IF item.type = "mirror" THEN setSource(g, gx, gy, MirrorSource)
  ELSE IF item.type = "plant" THEN setFlowModifier(g, gx, gy, PlantModifier)
  ELSE IF item.type = "rug"
       THEN setFlowModifier(setObstacle(g, gx, gy, RugResistance), gx, gy, RugModifier)
  ELSE setObstacle(g, gx, gy,
         IF item.flowResistance = 0 THEN DefaultResistance ELSE item.flowResistance)

Max(a, b) == IF a > b THEN a ELSE b
Min(a, b) == IF a < b THEN a ELSE b

RECURSIVE furnishRow(_, _, _, _, _)
furnishRow(g, item, gx, gxMax, gy) ==
  IF gx > gxMax THEN g
  ELSE furnishRow(furnishCell(g, item, gx, gy), item, gx + 1, gxMax, gy)

RECURSIVE furnishBox(_, _, _, _, _, _)
furnishBox(g, item, gxMin, gxMax, gy, gyMax) ==
  IF gy > gyMax THEN g
  ELSE furnishBox(furnishRow(g, item, gxMin, gxMax, gy), item, gxMin, gxMax, gy + 1, gyMax)

\* -0.6 * (1 - dist / 4), dist = sqrt(dx*dx + dy*dy), in thousandths
arrowModifier(dx, dy) ==
  -(600 - Quot(150 * Sqrt((dx * dx + dy * dy) * 1000000), 1000))

\* the dy / dx loops around one corner c: every cell within distance 3
arrowStamp(g, c) ==
  [g EXCEPT !.flowModifier = [i \in Cells |->
     LET dx == (i % width) - c.gx
         dy == (i \div width) - c.gy
     IN IF dx * dx + dy * dy <= 9 THEN arrowModifier(dx, dy) ELSE g.flowModifier[i]]]

poisonArrows(g, item, rb) ==
  LET c1 == toGrid(rb, item.x, item.y)
      c2 == toGrid(rb, item.x + item.width, item.y)
      c3 == toGrid(rb, item.x, item.y + item.height)
      c4 == toGrid(rb, item.x + item.width, item.y + item.height)
  IN arrowStamp(arrowStamp(arrowStamp(arrowStamp(g, c1), c2), c3), c4)

furnish(g, item, rb) ==
  LET tl == toGrid(rb, item.x, item.y)
      br == toGrid(rb, item.x + item.width, item.y + item.height)
      g1 == furnishBox(g, item, Max(1, tl.gx), Min(width - 2, br.gx),
                       Max(1, tl.gy), Min(height - 2, br.gy))
  IN IF item.poisonArrow THEN poisonArrows(g1, item, rb) ELSE g1

RECURSIVE placeFurniture(_, _, _)
placeFurniture(g, furniture, rb) ==
  IF furniture = << >> THEN g
  ELSE placeFurniture(furnish(g, Head(furniture), rb), Tail(furniture), rb)

rasterize(g, state) ==
  LET rb == state.roomBounds
      g0 == clear(g)
      g1 == fillBorder(g0)
      g2 == drawWalls(g1, state.walls, rb)
      g3 == carve(g2, state.doors, rb, DoorStrong, DoorWeak)
      g4 == carve(g3, state.windows, rb, WindowStrong, WindowWeak)
  IN placeFurniture(g4, state.furniture, rb)

\* ---------------------------------------------------- Simulation.solve --
\* the cells of the loops "for y = 1 .. h-2, for x = 1 .. w-2", in loop order
InteriorCount == (width - 2) * (height - 2)
interiorX(k) == 1 + ((k - 1) % (width - 2))
interiorY(k) == 1 + ((k - 1) \div (width - 2))
Interior == {idx(interiorX(k), interiorY(k)) : k \in 1 .. InteriorCount}

\* a variant that keeps the potential of the cells without a positive source
initPotentialWarm(g) ==
  [g EXCEPT !.potential = [i \in Cells |->
     IF g.sources[i] > 0 THEN g.sources[i] ELSE g.potential[i]]]

\* "Initialize potential": sources[i] * 100 where sources[i] > 0, else 0
initPotential(g) ==
  [g EXCEPT !.potential = [i \in Cells |-> IF g.sources[i] > 0 THEN g.sources[i] ELSE 0]]

doorCells(g) == {i \in Interior : g.sources[i] > SpawnThreshold}

\* doorSumX (byX) or doorSumY over a set of cells
RECURSIVE SumOver(_, _)
SumOver(S, byX) ==
  IF S = {} THEN 0
  ELSE LET i == CHOOSE j \in S : TRUE
       IN (IF byX THEN i % width ELSE i \div width) + SumOver(S \ {i}, byX)

\* nearWall: an orthogonal neighbour with cells >= 1
nearWall(g, i) ==
  g.cells[i - 1] >= Wall \/ g.cells[i + 1] >= Wall \/
  g.cells[i - width] >= Wall \/ g.cells[i + width] >= Wall

\* (dist / maxDist)^2 of cell i from the door centroid, as numerator and
\* denominator: dist^2 = ((x*n - sumX)^2 + (y*n - sumY)^2) / n^2, maxDist^2 = w^2 + h^2
ratioNum(i, sumX, sumY, n) ==
  ((i % width) * n - sumX) * ((i % width) * n - sumX) +
  ((i \div width) * n - sumY) * ((i \div width) * n - sumY)
ratioDen(n) == n * n * (width * width + height * height)

\* a variant that does not skip the cells that already hold a source
isSinkAnySource(g, i, sumX, sumY, n) ==
  /\ i \in Interior
  /\ g.cells[i] < Wall
  /\ nearWall(g, i)
  /\ 100 * ratioNum(i, sumX, sumY, n) > 9 * ratioDen(n)

\* a variant with the threshold distRatio > 0.2
isSinkNear(g, i, sumX, sumY, n) ==
  /\ i \in Interior
  /\ ~(g.cells[i] >= Wall \/ g.sources[i] > 0)
  /\ nearWall(g, i)
  /\ 100 * ratioNum(i, sumX, sumY, n) > 4 * ratioDen(n)

\* the cells solve() designates as sinks (distRatio > 0.3)
isSink(g, i, sumX, sumY, n) ==
  /\ i \in Interior
  /\ ~(g.cells[i] >= Wall \/ g.sources[i] > 0)
  /\ nearWall(g, i)
  /\ 100 * ratioNum(i, sumX, sumY, n) > 9 * ratioDen(n)

\* sinkStrength = -8 * distRatio^2 (hundredths); sources[i] = sinkStrength / 100
sinkStrength(i, sumX, sumY, n) == Quot(-800 * ratioNum(i, sumX, sumY, n), ratioDen(n))

sinksAt(g, sumX, sumY, n) ==
  [g EXCEPT
     !.potential = [i \in Cells |->
        IF isSink(g, i, sumX, sumY, n) THEN sinkStrength(i, sumX, sumY, n)
        ELSE g.potential[i]],
     !.sources = [i \in Cells |->
        IF isSink(g, i, sumX, sumY, n) THEN sinkStrength(i, sumX, sumY, n)
        ELSE g.sources[i]]]

\* a variant that falls back to the grid centre when no door cell exists
placeSinksAlways(g) ==
  LET D == doorCells(g)
  IN IF Cardinality(D) > 0
     THEN sinksAt(g, SumOver(D, TRUE), SumOver(D, FALSE), Cardinality(D))
     ELSE sinksAt(g, width, height, 2)

placeSinks(g) ==
  LET D == doorCells(g)
      doorCount == Cardinality(D)
  IN IF doorCount > 0
     THEN sinksAt(g, SumOver(D, TRUE), SumOver(D, FALSE), doorCount)
     ELSE g

\* a variant that relaxes the cells that hold a source or a sink too
relaxCellUnclamped(g, phi, i) ==
  IF g.cells[i] >= Wall THEN phi
  ELSE LET avg == Quot(phi[i - 1] + phi[i + 1] + phi[i - width] + phi[i + width], 4)
       IN [phi EXCEPT ![i] = phi[i] + Quot(17 * (avg - phi[i]), 10)]

\* one SOR update of cell i (omega = 1.7)
relaxCell(g, phi, i) ==
  IF g.cells[i] >= Wall THEN phi
  ELSE IF g.sources[i] # 0 THEN phi
  ELSE LET avg == Quot(phi[i - 1] + phi[i + 1] + phi[i - width] + phi[i + width], 4)
           blended == IF g.cells[i] > 0 /\ g.cells[i] < Wall
                      THEN Quot((Wall - g.cells[i]) * avg + g.cells[i] * phi[i], Wall)
                      ELSE avg
           newVal == IF g.flowModifier[i] > 0
                     THEN blended + Quot(g.flowModifier[i] * 2, 10)
                     ELSE IF g.flowModifier[i] < 0
                     THEN blended + Quot(g.flowModifier[i] * 3, 10)
                     ELSE blended
       IN [phi EXCEPT ![i] = phi[i] + Quot(17 * (newVal - phi[i]), 10)]

\* one sweep over the interior, in place; phi is evaluated at every step so
\* that the model checker's evaluation stays shallow
RECURSIVE sweep(_, _, _)
sweep(g, phi, k) ==
  IF k > InteriorCount \/ phi = << >> THEN phi
  ELSE sweep(g, relaxCell(g, phi, idx(interiorX(k), interiorY(k))), k + 1)

\* "SOR iteration": this.iterations sweeps
RECURSIVE relax(_, _, _)
relax(g, phi, iter) ==
  IF iter >= iterations \/ phi = << >> THEN phi
  ELSE relax(g, sweep(g, phi, 1), iter + 1)

\* "Compute velocity field from potential gradient", interior cells only
\* a variant that takes the gradient in wall cells too
cellVxThroughWalls(g, phi, i) == Quot(-(phi[i + 1] - phi[i - 1]), 2)

cellVx(g, phi, i) ==
  IF g.cells[i] >= Wall THEN 0
  ELSE LET v == Quot(-(phi[i + 1] - phi[i - 1]), 2)
       IN IF g.cells[i] > 0 /\ g.cells[i] < Wall
          THEN Quot(v * (Wall - g.cells[i]), Wall) ELSE v

cellVy(g, phi, i) ==
  IF g.cells[i] >= Wall THEN 0
  ELSE LET v == Quot(-(phi[i + width] - phi[i - width]), 2)
       IN IF g.cells[i] > 0 /\ g.cells[i] < Wall
          THEN Quot(v * (Wall - g.cells[i]), Wall) ELSE v

velocities(g) ==
  LET phi == g.potential
      nvx == [i \in Cells |-> IF i \in Interior THEN cellVx(g, phi, i) ELSE g.vx[i]]
      nvy == [i \in Cells |-> IF i \in Interior THEN cellVy(g, phi, i) ELSE g.vy[i]]
  IN [g EXCEPT !.vx = nvx, !.vy = nvy,
               !.speed = [i \in Cells |->
                  IF i \in Interior THEN Sqrt(nvx[i] * nvx[i] + nvy[i] * nvy[i])
                  ELSE g.speed[i]]]

solve(g) ==
  LET g1 == placeSinks(initPotential(g))
      g2 == [g1 EXCEPT !.potential = relax(g1, g1.potential, 0)]
  IN velocities(g2)

\* ------------------------------------------------------- Grid queries ----
getSpeed(g, x, y) == IF ~inBounds(x, y) THEN 0 ELSE g.speed[idx(x, y)]

\* a bounds check on the flat index only
getVelocityFlat(g, x, y) ==
  IF idx(x, y) \notin Cells THEN [vx |-> 0, vy |-> 0]
  ELSE [vx |-> g.vx[idx(x, y)], vy |-> g.vy[idx(x, y)]]

getVelocity(g, x, y) ==
  IF ~inBounds(x, y) THEN [vx |-> 0, vy |-> 0]
  ELSE [vx |-> g.vx[idx(x, y)], vy |-> g.vy[idx(x, y)]]

\* bilinear weights swapped along x
getVelocityAtSwapped(g, fx, fy) ==
  LET x0 == Floor(fx)
      y0 == Floor(fy)
      sx == PosScale - (fx - x0 * PosScale)
      sy == fy - y0 * PosScale
      v00 == getVelocity(g, x0, y0)
      v10 == getVelocity(g, x0 + 1, y0)
      v01 == getVelocity(g, x0, y0 + 1)
      v11 == getVelocity(g, x0 + 1, y0 + 1)
  IN [vx |-> Quot((PosScale - sx) * (PosScale - sy) * v00.vx + sx * (PosScale - sy) * v10.vx +
                  (PosScale - sx) * sy * v01.vx + sx * sy * v11.vx, PosScale * PosScale),
      vy |-> Quot((PosScale - sx) * (PosScale - sy) * v00.vy + sx * (PosScale - sy) * v10.vy +
                  (PosScale - sx) * sy * v01.vy + sx * sy * v11.vy, PosScale * PosScale)]

\* bilinear interpolation at fixed-point coordinates (fx, fy)
getVelocityAt(g, fx, fy) ==
  LET x0 == Floor(fx)
      y0 == Floor(fy)
      sx == fx - x0 * PosScale
      sy == fy - y0 * PosScale
      v00 == getVelocity(g, x0, y0)
      v10 == getVelocity(g, x0 + 1, y0)
      v01 == getVelocity(g, x0, y0 + 1)
      v11 == getVelocity(g, x0 + 1, y0 + 1)
  IN [vx |-> Quot((PosScale - sx) * (PosScale - sy) * v00.vx + sx * (PosScale - sy) * v10.vx +
                  (PosScale - sx) * sy * v01.vx + sx * sy * v11.vx, PosScale * PosScale),
      vy |-> Quot((PosScale - sx) * (PosScale - sy) * v00.vy + sx * (PosScale - sy) * v10.vy +
                  (PosScale - sx) * sy * v01.vy + sx * sy * v11.vy, PosScale * PosScale)]

RECURSIVE maxFrom(_, _, _)
maxFrom(speed, i, max) ==
  IF i >= width * height THEN max
  ELSE maxFrom(speed, i + 1, IF speed[i] > max THEN speed[i] ELSE max)

getMaxSpeed(g) == maxFrom(g.speed, 0, 0)

\* ----------------------------------------------------- ParticleSystem ---
\* the values Math.random() is drawn from, in hundredths, per call site
RandomSource == {0, 99}     \* spawnParticle: choice of the source cell
RandomJitterX == {0, 99}    \* spawnParticle: x jitter, -1.5 or +1.47
RandomJitterY == {99}       \* spawnParticle: y jitter, +1.47
RandomAge == {0}            \* spawnParticle: maxAge = 400
RandomDrift == {0}          \* update: drift of -0.075 in stagnant areas
LifeScale == 10000          \* life: 1.0
SpawnJitter == 3            \* (Math.random() - 0.5) * 3
StagnantLimit == 60         \* stagnantFrames > 60
StagnantDecay == 200        \* life -= 0.02

RECURSIVE scanSources(_, _, _)
scanSources(g, i, threshold) ==
  IF i >= width * height THEN << >>
  ELSE (IF g.sources[i] > threshold
        THEN << [x |-> i % width, y |-> i \div width, strength |-> g.sources[i]] >>
        ELSE << >>) \o scanSources(g, i + 1, threshold)

\* a variant that takes every positive source
findSourcesPositive(g) == scanSources(g, 0, 0)

\* the new sourcePositions: cells with sources > 0.5, rows top to bottom
findSources(g) == scanSources(g, 0, SpawnThreshold)

newParticle(src, jx, jy, ra, jitter) ==
  [x |-> src.x * PosScale + (jx - 50) * jitter,
   y |-> src.y * PosScale + (jy - 50) * jitter,
   trail |-> << >>,
   life |-> LifeScale,
   age |-> 0,
   maxAge |-> 400 + 6 * ra,
   stagnantFrames |-> 0]

\* a variant with twice the jitter
spawnParticleWide(positions) ==
  IF Len(positions) = 0 THEN {}
  ELSE {newParticle(positions[(rs * Len(positions)) \div 100 + 1], jx, jy, ra, 2 * SpawnJitter) :
          rs \in RandomSource, jx \in RandomJitterX, jy \in RandomJitterY, ra \in RandomAge}

\* the particles spawnParticle() can return; the empty set stands for null
spawnParticle(positions) ==
  IF Len(positions) = 0 THEN {}
  ELSE {newParticle(positions[(rs * Len(positions)) \div 100 + 1], jx, jy, ra, SpawnJitter) :
          rs \in RandomSource, jx \in RandomJitterX, jy \in RandomJitterY, ra \in RandomAge}

\* "Spawn new particles": the lists the while loop can end with
RECURSIVE spawnLoop(_, _)
spawnLoop(ps, positions) ==
  IF Len(ps) >= maxParticles \/ spawnParticle(positions) = {} THEN {ps}
  ELSE UNION {spawnLoop(Append(ps, p), positions) : p \in spawnParticle(positions)}

RemoveAt(s, i) == SubSeq(s, 1, i - 1) \o SubSeq(s, i + 1, Len(s))

\* a variant that always removes the slot
respawnSplice(st, positions, index, cause) ==
  {[ps |-> RemoveAt(st.ps, index),
    events |-> st.events \cup {[slot |-> index, cause |-> cause, replaced |-> FALSE]}]}

\* _respawn(index): st.ps is the particle list, st.events the record of the
\* slots killed so far in this update
respawn(st, positions, index, cause) ==
  IF spawnParticle(positions) = {}
  THEN {[ps |-> RemoveAt(st.ps, index),
         events |-> st.events \cup {[slot |-> index, cause |-> cause, replaced |-> FALSE]}]}
  ELSE {[ps |-> [st.ps EXCEPT ![index] = np],
         events |-> st.events \cup {[slot |-> index, cause |-> cause, replaced |-> TRUE]}] :
          np \in spawnParticle(positions)}

\* a variant that never evicts
pushTrailUnbounded(p) == [p EXCEPT !.trail = Append(p.trail, <<p.x, p.y>>)]

\* p.trail.push({x, y}); shift when longer than trailLength
pushTrail(p) ==
  LET t == Append(p.trail, <<p.x, p.y>>)
  IN [p EXCEPT !.trail = IF Len(t) > trailLength THEN Tail(t) ELSE t]

\* a variant whose scale is 3 / maxSpeed
movedFast(g, p, dt, maxSpeed, rx, ry) ==
  LET vel == getVelocityAt(g, p.x, p.y)
  IN IF vel.vx # 0 \/ vel.vy # 0
     THEN [p EXCEPT !.x = p.x + (IF maxSpeed > 0 THEN Quot(vel.vx * 300 * dt, maxSpeed)
                                 ELSE vel.vx * dt),
                    !.y = p.y + (IF maxSpeed > 0 THEN Quot(vel.vy * 300 * dt, maxSpeed)
                                 ELSE vel.vy * dt),
                    !.stagnantFrames = 0]
     ELSE [p EXCEPT !.x = p.x + Quot(15 * rx - 750, 100),
                    !.y = p.y + Quot(15 * ry - 750, 100),
                    !.stagnantFrames = p.stagnantFrames + 1]

\* the particle after "Move particle" for one choice of drift
moved(g, p, dt, maxSpeed, rx, ry) ==
  LET vel == getVelocityAt(g, p.x, p.y)
  IN IF vel.vx # 0 \/ vel.vy # 0
     THEN [p EXCEPT !.x = p.x + (IF maxSpeed > 0 THEN Quot(vel.vx * 150 * dt, maxSpeed)
                                 ELSE vel.vx * dt),
                    !.y = p.y + (IF maxSpeed > 0 THEN Quot(vel.vy * 150 * dt, maxSpeed)
                                 ELSE vel.vy * dt),
                    !.stagnantFrames = 0]
     ELSE [p EXCEPT !.x = p.x + Quot(15 * rx - 750, 100),
                    !.y = p.y + Quot(15 * ry - 750, 100),
                    !.stagnantFrames = p.stagnantFrames + 1]

\* "Update life"
aged(p, dt) ==
  LET age == p.age + dt
      life == Max(0, LifeScale - ((age * LifeScale) \div p.maxAge))
  IN [p EXCEPT !.age = age,
               !.life = IF p.stagnantFrames > StagnantLimit THEN life - StagnantDecay ELSE life]

\* a variant that lets a particle with life exactly 0 live on
deathCauseStrict(p) ==
  IF p.life < 0 THEN "life"
  ELSE IF p.age > p.maxAge THEN "age"
  ELSE IF ~inBounds(Floor(p.x), Floor(p.y)) THEN "out"
  ELSE "none"

deathCause(p) ==
  IF p.life <= 0 THEN "life"
  ELSE IF p.age > p.maxAge THEN "age"
  ELSE IF ~inBounds(Floor(p.x), Floor(p.y)) THEN "out"
  ELSE "none"

\* one iteration of the "Update existing particles" loop, for slot i
stepSlot(g, positions, st, i, dt, maxSpeed) ==
  LET p == pushTrail(st.ps[i])
  IN IF ~inBounds(Floor(p.x), Floor(p.y)) \/ isWall(g, Floor(p.x), Floor(p.y))
     THEN respawn(st, positions, i, "cell")
     ELSE UNION {
            LET q == aged(moved(g, p, dt, maxSpeed, rx, ry), dt)
            IN IF deathCause(q) # "none"
               THEN respawn(st, positions, i, deathCause(q))
               ELSE {[st EXCEPT !.ps[i] = q]}
            : rx \in RandomDrift, ry \in RandomDrift}

RECURSIVE updateFrom(_, _, _, _, _, _)
updateFrom(g, positions, st, i, dt, maxSpeed) ==
  IF i < 1 THEN {st}
  ELSE UNION {updateFrom(g, positions, st2, i - 1, dt, maxSpeed) :
                st2 \in stepSlot(g, positions, st, i, dt, maxSpeed)}

\* the outcomes of update(dt): the particle list and the slots killed
update(g, ps, positions, dt) ==
  UNION {updateFrom(g, positions, [ps |-> spawned, events |-> {}], Len(spawned), dt,
                    getMaxSpeed(g)) : spawned \in spawnLoop(ps, positions)}

\* --------------------------------------------------- geometry inputs ----
\* Snapshots are in world coordinates; RoomBounds maps two world units to a
\* cell, so odd coordinates exercise the rounding of toGrid.
RoomBounds == [x |-> 10, y |-> 20, width |-> 2 * width, height |-> 2 * height]

Seg(x1, y1, x2, y2) == [x1 |-> x1, y1 |-> y1, x2 |-> x2, y2 |-> y2]

Item(type, resistance, arrow) ==
  [x |-> 14, y |-> 24, width |-> 2, height |-> 2, type |-> type,
   flowResistance |-> resistance, poisonArrow |-> arrow]

WallMid == Seg(16, 22, 16, 24)        \* cells (3,1) .. (3,2)
WallPoint == Seg(18, 28, 17, 28)      \* both ends in cell (4,4)
DoorLeft == Seg(10, 24, 10, 26)       \* cells (0,2) .. (0,3), on the outer ring
DoorPoint == Seg(12, 22, 12, 22)      \* zero length, cell (1,1)
DoorOut == Seg(8, 28, 12, 28)         \* cells (-1,4) .. (1,4)
WindowTop == Seg(16, 20, 18, 20)      \* cells (3,0) .. (4,0), on the outer ring
WindowPoint == Seg(18, 26, 18, 26)    \* zero length, cell (4,3)

WallChoices == {<< >>, <<WallMid>>, <<WallPoint>>}
DoorChoices == {<< >>, <<DoorLeft>>, <<DoorPoint>>, <<DoorOut>>}
WindowChoices == {<< >>, <<WindowTop>>, <<WindowPoint>>}
FurnitureChoices ==
  {<< >>, <<Item("plant", 100, FALSE)>>, <<Item("rug", 50, FALSE)>>,
   <<Item("mirror", 0, FALSE)>>, <<Item("table", 500, TRUE)>>,
   <<Item("cabinet", 900, FALSE)>>, <<Item("bookshelf", 0, FALSE)>>}

Snapshot(walls, doors, windows, furniture) ==
  [walls |-> walls, doors |-> doors, windows |-> windows, furniture |-> furniture,
   roomBounds |-> RoomBounds]

\* every combination of segments without furniture, and every furniture item
\* in an empty room, behind a wall, before a door and both
Snapshots ==
  {Snapshot(w, d, n, << >>) : w \in WallChoices, d \in DoorChoices, n \in WindowChoices}
  \cup {Snapshot(w, d, << >>, f) : w \in {<< >>, <<WallMid>>}, d \in {<< >>, <<DoorLeft>>},
                                   f \in FurnitureChoices}

\* the argument of rasterize before the first call
NoSnapshot == Snapshot(<< >>, << >>, << >>, << >>)

\* the snapshots the particle system is run on
ParticleSnapshots ==
  {Snapshot(<< >>, <<DoorLeft>>, << >>, << >>),
   Snapshot(<<WallMid>>, << >>, <<WindowTop>>, << >>)}

\* the solved rooms the sampler is queried on
SamplerSnapshots ==
  {Snapshot(<< >>, <<DoorLeft>>, << >>, << >>),
   Snapshot(<<WallPoint>>, <<DoorOut>>, <<WindowTop>>, <<Item("cabinet", 900, FALSE)>>)}

\* query coordinates, in hundredths of a cell, inside and outside the grid
QueryCoords ==
  {-200, -150, -50, 0, 100, 150, 225, (width - 2) * 100, (width - 1) * 100,
   (width - 1) * 100 + 50, width * 100 + 50, (width + 1) * 100}

DtChoices == {1, 400}

\* ------------------------------------------------------- the editor ------
\* The Editor object is a record of its fields (backgroundImage, which no
\* handler below reads, is left out). A nullable field holds << >> for null
\* and <<v>> for a value. The field "saved" is not a field of the code: it
\* records that saveState() ran during the current handler.
Null == << >>

Point(x, y) == [x |-> x, y |-> y]

Scene(e) == [walls |-> e.walls, doors |-> e.doors, windows |-> e.windows,
             furniture |-> e.furniture]

\* JSON.parse(JSON.stringify(list)) of a list of segments
cloneSegments(list) ==
  [k \in 1 .. Len(list) |->
     [x1 |-> list[k].x1, y1 |-> list[k].y1, x2 |-> list[k].x2, y2 |-> list[k].y2]]

\* JSON.parse(JSON.stringify(list)) of a list of furniture items
cloneFurniture(list) ==
  [k \in 1 .. Len(list) |->
     [id |-> list[k].id, type |-> list[k].type, width |-> list[k].width,
      height |-> list[k].height, x |-> list[k].x, y |-> list[k].y,
      rotation |-> list[k].rotation]]

\* the snapshot that saveState, undo and redo push
snapshotOf(e) ==
  [walls |-> cloneSegments(e.walls), doors |-> cloneSegments(e.doors),
   windows |-> cloneSegments(e.windows), furniture |-> cloneFurniture(e.furniture)]

\* new Editor()
NewEditor ==
  [walls |-> << >>, doors |-> << >>, windows |-> << >>, furniture |-> << >>,
   currentTool |-> "select", wallStart |-> Null, selectedItem |-> Null,
   dragOffset |-> Null, isDragging |-> FALSE, pendingFurnitureType |-> Null,
   undoStack |-> << >>, redoStack |-> << >>, saved |-> FALSE]

\* a variant of saveState that keeps the redo stack
saveStateKeepRedo(e) ==
  LET pushed == [e EXCEPT !.undoStack = Append(@, snapshotOf(e)), !.saved = TRUE]
  IN IF Len(pushed.undoStack) > undoLimit
     THEN [pushed EXCEPT !.undoStack = Tail(@)]
     ELSE pushed

saveState(e) ==
  LET pushed == [e EXCEPT !.undoStack = Append(@, snapshotOf(e)),
                          !.redoStack = << >>, !.saved = TRUE]
  IN IF Len(pushed.undoStack) > undoLimit
     THEN [pushed EXCEPT !.undoStack = Tail(@)]
     ELSE pushed

\* undo(): the editor after the call and the value returned
undo(e) ==
  IF Len(e.undoStack) = 0 THEN [e |-> e, ret |-> FALSE]
  ELSE LET state == e.undoStack[Len(e.undoStack)]
       IN [e |-> [e EXCEPT !.redoStack = Append(@, snapshotOf(e)),
                           !.undoStack = SubSeq(@, 1, Len(@) - 1),
                           !.walls = state.walls, !.doors = state.doors,
                           !.windows = state.windows, !.furniture = state.furniture],
           ret |-> TRUE]

\* redo(): the editor after the call and the value returned
redo(e) ==
  IF Len(e.redoStack) = 0 THEN [e |-> e, ret |-> FALSE]
  ELSE LET state == e.redoStack[Len(e.redoStack)]
       IN [e |-> [e EXCEPT !.undoStack = Append(@, snapshotOf(e)),
                           !.redoStack = SubSeq(@, 1, Len(@) - 1),
                           !.walls = state.walls, !.doors = state.doors,
                           !.windows = state.windows, !.furniture = state.furniture],
           ret |-> TRUE]

clearAll(e) ==
  [saveState(e) EXCEPT !.walls = << >>, !.doors = << >>, !.windows = << >>,
                       !.furniture = << >>, !.wallStart = Null, !.selectedItem = Null]

setTool(e, tool) ==
  [e EXCEPT !.currentTool = tool, !.wallStart = Null, !.selectedItem = Null,
            !.isDragging = FALSE,
            !.pendingFurnitureType = IF tool # "furniture" THEN Null ELSE @]

loadTemplate(e, template) ==
  [saveState(e) EXCEPT !.walls = template.walls, !.doors = template.doors,
                       !.windows = template.windows, !.furniture = template.furniture,
                       !.wallStart = Null, !.selectedItem = Null]

\* createFurnitureInstance(type, x, y); id is the value of
\* Date.now() + Math.random()
createFurnitureInstance(type, x, y, id) ==
  [id |-> id, type |-> type, width |-> CabinetWidth, height |-> CabinetHeight,
   x |-> x, y |-> y, rotation |-> 0]

\* _nearLine(px, py, line, threshold): the distance of (px, py) to the
\* segment, compared in squares
nearLine(px, py, line, threshold) ==
  LET dx == line.x2 - line.x1
      dy == line.y2 - line.y1
      len2 == dx * dx + dy * dy
      dot == (px - line.x1) * dx + (py - line.y1) * dy
      cross == (px - line.x1) * dy - (py - line.y1) * dx
      d1 == (px - line.x1) * (px - line.x1) + (py - line.y1) * (py - line.y1)
      d2 == (px - line.x2) * (px - line.x2) + (py - line.y2) * (py - line.y2)
  IN IF len2 = 0 \/ dot <= 0 THEN d1 < threshold * threshold
     ELSE IF dot >= len2 THEN d2 < threshold * threshold
     ELSE cross * cross < threshold * threshold * len2

inside(wx, wy, f) ==
  wx >= f.x /\ wx <= f.x + f.width /\ wy >= f.y /\ wy <= f.y + f.height

\* the index (from 0) that a loop "for (i = length - 1; i >= 0; i--)" stops
\* at, or -1 when it runs to the end
topmost(hits) == IF hits = {} THEN -1 ELSE (CHOOSE i \in hits : \A j \in hits : j <= i) - 1

furnitureAt(e, wx, wy) ==
  topmost({i \in 1 .. Len(e.furniture) : inside(wx, wy, e.furniture[i])})

segmentAt(list, wx, wy) ==
  topmost({i \in 1 .. Len(list) : nearLine(wx, wy, list[i], NearThreshold)})

Selected(type, index) == <<[type |-> type, index |-> index]>>

\* _handleSelect(wx, wy)
handleSelect(e, wx, wy) ==
  IF furnitureAt(e, wx, wy) >= 0
  THEN LET i == furnitureAt(e, wx, wy)
           f == e.furniture[i + 1]
       IN [e EXCEPT !.selectedItem = Selected("furniture", i),
                    !.dragOffset = <<Point(wx - f.x, wy - f.y)>>,
                    !.isDragging = TRUE]
  ELSE IF segmentAt(e.doors, wx, wy) >= 0
  THEN [e EXCEPT !.selectedItem = Selected("door", segmentAt(e.doors, wx, wy))]
  ELSE IF segmentAt(e.windows, wx, wy) >= 0
  THEN [e EXCEPT !.selectedItem = Selected("window", segmentAt(e.windows, wx, wy))]
  ELSE IF segmentAt(e.walls, wx, wy) >= 0
  THEN [e EXCEPT !.selectedItem = Selected("wall", segmentAt(e.walls, wx, wy))]
  ELSE [e EXCEPT !.selectedItem = Null]

\* list.splice(index, 1), index from 0
splice(list, index) == IF index < Len(list) THEN RemoveAt(list, index + 1) ELSE list

\* _handleErase(wx, wy)
handleErase(e, wx, wy) ==
  IF furnitureAt(e, wx, wy) >= 0
  THEN [saveState(e) EXCEPT !.furniture = splice(@, furnitureAt(e, wx, wy))]
  ELSE IF segmentAt(e.doors, wx, wy) >= 0
  THEN [saveState(e) EXCEPT !.doors = splice(@, segmentAt(e.doors, wx, wy))]
  ELSE IF segmentAt(e.windows, wx, wy) >= 0
  THEN [saveState(e) EXCEPT !.windows = splice(@, segmentAt(e.windows, wx, wy))]
  ELSE IF segmentAt(e.walls, wx, wy) >= 0
  THEN [saveState(e) EXCEPT !.walls = splice(@, segmentAt(e.walls, wx, wy))]
  ELSE e

\* the segment from wallStart to the snapped click
drawn(e, sx, sy) == Seg(e.wallStart[1].x, e.wallStart[1].y, sx, sy)

\* handleMouseDown(wx, wy, snappedX, snappedY)
handleMouseDown(e, wx, wy, sx, sy, id) ==
  CASE e.currentTool = "wall" ->
         IF e.wallStart = Null THEN [e EXCEPT !.wallStart = <<Point(sx, sy)>>]
         ELSE [saveState(e) EXCEPT !.walls = Append(@, drawn(e, sx, sy)),
                                   !.wallStart = <<Point(sx, sy)>>]
    [] e.currentTool = "door" ->
         IF e.wallStart = Null THEN [e EXCEPT !.wallStart = <<Point(sx, sy)>>]
         ELSE [saveState(e) EXCEPT !.doors = Append(@, drawn(e, sx, sy)),
                                   !.wallStart = Null]
    [] e.currentTool = "window" ->
         IF e.wallStart = Null THEN [e EXCEPT !.wallStart = <<Point(sx, sy)>>]
         ELSE [saveState(e) EXCEPT !.windows = Append(@, drawn(e, sx, sy)),
                                   !.wallStart = Null]
    [] e.currentTool = "furniture" ->
         IF e.pendingFurnitureType # Null
         THEN LET item == createFurnitureInstance(e.pendingFurnitureType[1], sx, sy, id)
              IN [saveState(e) EXCEPT
                    !.furniture = Append(@, [item EXCEPT !.x = sx - item.width \div 2,
                                                         !.y = sy - item.height \div 2])]
         ELSE e
    [] e.currentTool = "select" -> handleSelect(e, wx, wy)
    [] e.currentTool = "erase" -> handleErase(e, wx, wy)
    [] OTHER -> e

\* handleMouseMove(wx, wy): the editor after the call and the value returned
handleMouseMove(e, wx, wy) ==
  IF /\ e.currentTool = "select" /\ e.isDragging /\ e.selectedItem # Null
     /\ e.selectedItem[1].type = "furniture"
     /\ e.selectedItem[1].index < Len(e.furniture)
     /\ e.dragOffset # Null
  THEN [e |-> [e EXCEPT !.furniture[e.selectedItem[1].index + 1].x = wx - e.dragOffset[1].x,
                        !.furniture[e.selectedItem[1].index + 1].y = wy - e.dragOffset[1].y],
        ret |-> TRUE]
  ELSE [e |-> e, ret |-> FALSE]

handleMouseUp(e) ==
  IF e.isDragging /\ e.selectedItem # Null
  THEN [e |-> [e EXCEPT !.isDragging = FALSE], ret |-> TRUE]
  ELSE [e |-> e, ret |-> FALSE]

handleDoubleClick(e) ==
  IF e.currentTool = "wall" /\ e.wallStart # Null
  THEN [e |-> [e EXCEPT !.wallStart = Null], ret |-> TRUE]
  ELSE [e |-> e, ret |-> FALSE]

\* the "Rotate furniture" part of handleKeyDown
rotateSelected(e) ==
  IF e.selectedItem # Null /\ e.selectedItem[1].type = "furniture"
  THEN LET s == saveState(e)
           k == e.selectedItem[1].index + 1
       IN IF k <= Len(e.furniture)
          THEN [e |-> [s EXCEPT !.furniture[k].width = e.furniture[k].height,
                                !.furniture[k].height = e.furniture[k].width,
                                !.furniture[k].rotation = (@ + 90) % 360],
                ret |-> TRUE]
          ELSE [e |-> s, ret |-> FALSE]
  ELSE [e |-> e, ret |-> FALSE]

\* the "Delete" part of handleKeyDown, with a selection
deleteSelected(e) ==
  LET sel == e.selectedItem[1]
      s == saveState(e)
  IN [s EXCEPT !.walls = IF sel.type = "wall" THEN splice(@, sel.index) ELSE @,
               !.doors = IF sel.type = "door" THEN splice(@, sel.index) ELSE @,
               !.windows = IF sel.type = "window" THEN splice(@, sel.index) ELSE @,
               !.furniture = IF sel.type = "furniture" THEN splice(@, sel.index) ELSE @,
               !.selectedItem = Null]

\* handleKeyDown(key): the editor after the call and the value returned
handleKeyDown(e, key) ==
  IF key = "Escape"
  THEN [e |-> [e EXCEPT !.wallStart = Null, !.selectedItem = Null, !.isDragging = FALSE],
        ret |-> TRUE]
  ELSE IF key \in {"Delete", "Backspace"} /\ e.selectedItem # Null
  THEN [e |-> deleteSelected(e), ret |-> TRUE]
  ELSE IF key \in {"r", "R"} THEN rotateSelected(e)
  ELSE [e |-> e, ret |-> FALSE]

\* canvas.snapToGrid(wx, wy), one coordinate
snapToGrid(w) == Round(w, gridSize) * gridSize

\* ------------------------------------------------------------ state ------
VARIABLES
  cells, sources, potential, vx, vy, speed, flowModifier,  \* Grid arrays
  converged,          \* Simulation.converged
  particles,          \* ParticleSystem.particles
  sourcePositions,    \* ParticleSystem.sourcePositions
  snapshot,           \* the argument of the last rasterize
  rasterized,         \* rasterize has been called
  lastOp,             \* the operation that produced this state
  deaths,             \* the slots killed by the last update
  probe,              \* the last query and its results
  ticks,              \* update() calls so far
  simulationActive,   \* app: let simulationActive
  btnDisabled,        \* app: btn-simulate.disabled
  framesQueued,       \* app: runSimulation callbacks waiting for an animation frame
  timersQueued,       \* app: setTimeout(() => runSimulation(), 100) not yet fired
  editorState,        \* app: editor.getSimulationState()
  editor,             \* the Editor object
  edLog               \* the last call on the editor and what it was given

gridVars == <<cells, sources, potential, vx, vy, speed, flowModifier>>
appVars == <<simulationActive, btnDisabled, framesQueued, timersQueued, editorState,
             editor, edLog>>
vars == <<cells, sources, potential, vx, vy, speed, flowModifier, converged, particles,
          sourcePositions, snapshot, rasterized, lastOp, deaths, probe, ticks,
          simulationActive, btnDisabled, framesQueued, timersQueued, editorState,
          editor, edLog>>

\* the Grid as the operators above take it
G ==
  [cells |-> cells, sources |-> sources, potential |-> potential, vx |-> vx,
   vy |-> vy, speed |-> speed, flowModifier |-> flowModifier]

SetGrid(g) ==
  /\ cells' = g.cells
  /\ sources' = g.sources
  /\ potential' = g.potential
  /\ vx' = g.vx
  /\ vy' = g.vy
  /\ speed' = g.speed
  /\ flowModifier' = g.flowModifier

NoProbe ==
  [asked |-> FALSE, fx |-> 0, fy |-> 0, at |-> [vx |-> 0, vy |-> 0],
   cell |-> [vx |-> 0, vy |-> 0], cellSpeed |-> 0]

GridIs(g) ==
  /\ cells = g.cells
  /\ sources = g.sources
  /\ potential = g.potential
  /\ vx = g.vx
  /\ vy = g.vy
  /\ speed = g.speed
  /\ flowModifier = g.flowModifier

\* the log before any call on the editor
NoLog == [op |-> "new", picked |-> Null, placed |-> 0, calls |-> 0]

\* the app before any event: nothing drawn, nothing queued
AppInit ==
  /\ simulationActive = FALSE
  /\ btnDisabled = FALSE
  /\ framesQueued = 0
  /\ timersQueued = 0
  /\ editorState = NoSnapshot
  /\ editor = NewEditor
  /\ edLog = NoLog

\* the state after new Grid, new Simulation(grid), new ParticleSystem(grid)
Init ==
  /\ GridIs(NewGrid)
  /\ converged = FALSE
  /\ particles = << >>
  /\ sourcePositions = << >>
  /\ snapshot = NoSnapshot
  /\ rasterized = FALSE
  /\ lastOp = "new"
  /\ deaths = {}
  /\ probe = NoProbe
  /\ ticks = 0
  /\ AppInit

\* ----------------------------------------------------------- actions ----
\* simulation.rasterize(state)
Rasterize(state) ==
  /\ SetGrid(rasterize(G, state))
  /\ snapshot' = state
  /\ rasterized' = TRUE
  /\ lastOp' = "rasterize"
  /\ deaths' = {}
  /\ probe' = NoProbe
  /\ UNCHANGED <<converged, particles, sourcePositions, ticks>>
  /\ UNCHANGED appVars

\* simulation.solve()
Solve ==
  /\ SetGrid(solve(G))
  /\ converged' = TRUE
  /\ lastOp' = "solve"
  /\ deaths' = {}
  /\ probe' = NoProbe
  /\ UNCHANGED <<particles, sourcePositions, snapshot, rasterized, ticks>>
  /\ UNCHANGED appVars

\* grid.getVelocityAt(fx, fy), grid.getVelocity(x, y), grid.getSpeed(x, y)
\* with x = floor(fx), y = floor(fy)
Query(fx, fy) ==
  /\ probe' = [asked |-> TRUE, fx |-> fx, fy |-> fy,
               at |-> getVelocityAt(G, fx, fy),
               cell |-> getVelocity(G, Floor(fx), Floor(fy)),
               cellSpeed |-> getSpeed(G, Floor(fx), Floor(fy))]
  /\ lastOp' = "query"
  /\ deaths' = {}
  /\ UNCHANGED <<cells, sources, potential, vx, vy, speed, flowModifier, converged,
                 particles, sourcePositions, snapshot, rasterized, ticks>>
  /\ UNCHANGED appVars

\* particles.findSources()
FindSources ==
  /\ sourcePositions' = findSources(G)
  /\ lastOp' = "findSources"
  /\ deaths' = {}
  /\ probe' = NoProbe
  /\ UNCHANGED <<cells, sources, potential, vx, vy, speed, flowModifier, converged,
                 particles, snapshot, rasterized, ticks>>
  /\ UNCHANGED appVars

\* particles.reset()
Reset ==
  /\ particles' = << >>
  /\ sourcePositions' = findSources(G)
  /\ lastOp' = "reset"
  /\ deaths' = {}
  /\ probe' = NoProbe
  /\ UNCHANGED <<cells, sources, potential, vx, vy, speed, flowModifier, converged,
                 snapshot, rasterized, ticks>>
  /\ UNCHANGED appVars

\* particles.update(dt)
Update(dt) ==
  /\ ticks < MaxTicks
  /\ \E st \in update(G, particles, sourcePositions, dt) :
       /\ particles' = st.ps
       /\ deaths' = st.events
  /\ ticks' = ticks + 1
  /\ lastOp' = "update"
  /\ probe' = NoProbe
  /\ UNCHANGED <<cells, sources, potential, vx, vy, speed, flowModifier, converged,
                 sourcePositions, snapshot, rasterized>>
  /\ UNCHANGED appVars

\* ------------------------------------------------------ specifications ---
\* the simulation: any sequence of rasterize and solve
RasterizeAny == \E state \in Snapshots : Rasterize(state)
Next == RasterizeAny \/ Solve
Spec == Init /\ [][Next]_vars

\* the sampler, queried on solved rooms
InitSampler ==
  \E state \in SamplerSnapshots :
    /\ GridIs(solve(rasterize(NewGrid, state)))
    /\ converged = TRUE
    /\ particles = << >>
    /\ sourcePositions = << >>
    /\ snapshot = state
    /\ rasterized = TRUE
    /\ lastOp = "solve"
    /\ deaths = {}
    /\ probe = NoProbe
    /\ ticks = 0
    /\ AppInit
QueryAny == \E fx \in QueryCoords, fy \in QueryCoords : Query(fx, fy)
NextSampler == QueryAny
SpecSampler == InitSampler /\ [][NextSampler]_vars

\* the particle system on a grid that is rasterized and solved around it
RasterizeRoom == \E state \in ParticleSnapshots : Rasterize(state)
UpdateAny == \E dt \in DtChoices : Update(dt)
NextParticles == RasterizeRoom \/ Solve \/ Reset \/ FindSources \/ UpdateAny
SpecParticles == Init /\ [][NextParticles]_vars

\* ---------------------------------------------------------- the app ------
\* the geometry the editor can hold, and the templates it can load
EditorStates == ParticleSnapshots \cup {NoSnapshot}
Templates == ParticleSnapshots

\* a variant of the frame callback that leaves out the solve
simulationFrameUnsolved(g, state) == rasterize(g, state)

\* the grid after the callback runSimulation() hands to requestAnimationFrame
simulationFrame(g, state) == solve(rasterize(g, state))

\* runSimulation(), up to its requestAnimationFrame
runSimulation ==
  IF editorState.walls = << >> /\ editorState.doors = << >>
  THEN UNCHANGED <<btnDisabled, framesQueued>>
  ELSE btnDisabled' = TRUE /\ framesQueued' = framesQueued + 1

\* particles.reset() inside an event handler
handlerReset ==
  /\ particles' = << >>
  /\ sourcePositions' = findSources(G)
  /\ lastOp' = "reset"
  /\ deaths' = {}
  /\ probe' = NoProbe

\* click on btn-simulate
ClickSimulate ==
  /\ ~btnDisabled
  /\ framesQueued < MaxPending
  /\ runSimulation
  /\ UNCHANGED <<cells, sources, potential, vx, vy, speed, flowModifier, converged,
                 particles, sourcePositions, snapshot, rasterized, lastOp, deaths, probe,
                 ticks, simulationActive, timersQueued, editorState>>
  /\ UNCHANGED <<editor, edLog>>

\* click on a template button
LoadTemplate(template) ==
  /\ timersQueued < MaxPending
  /\ editorState' = template
  /\ simulationActive' = FALSE
  /\ handlerReset
  /\ timersQueued' = timersQueued + 1
  /\ UNCHANGED <<cells, sources, potential, vx, vy, speed, flowModifier, converged,
                 snapshot, rasterized, ticks, btnDisabled, framesQueued>>
  /\ UNCHANGED <<editor, edLog>>

\* the timeout of a template click fires
TimerFires ==
  /\ timersQueued > 0
  /\ framesQueued < MaxPending
  /\ timersQueued' = timersQueued - 1
  /\ runSimulation
  /\ UNCHANGED <<cells, sources, potential, vx, vy, speed, flowModifier, converged,
                 particles, sourcePositions, snapshot, rasterized, lastOp, deaths, probe,
                 ticks, simulationActive, editorState>>
  /\ UNCHANGED <<editor, edLog>>

\* the animation-frame callback of runSimulation
SimulationFrame ==
  /\ framesQueued > 0
  /\ SetGrid(simulationFrame(G, editorState))
  /\ converged' = TRUE
  /\ snapshot' = editorState
  /\ rasterized' = TRUE
  /\ particles' = << >>
  /\ sourcePositions' = findSources(G')
  /\ lastOp' = "findSources"
  /\ deaths' = {}
  /\ probe' = NoProbe
  /\ simulationActive' = TRUE
  /\ btnDisabled' = FALSE
  /\ framesQueued' = framesQueued - 1
  /\ UNCHANGED <<ticks, timersQueued, editorState>>
  /\ UNCHANGED <<editor, edLog>>

\* render(): the particle part of one animation frame
RenderFrame ==
  IF simulationActive THEN Update(1) ELSE UNCHANGED vars

\* click on btn-clear
ClearAll ==
  /\ editorState' = NoSnapshot
  /\ simulationActive' = FALSE
  /\ handlerReset
  /\ UNCHANGED <<cells, sources, potential, vx, vy, speed, flowModifier, converged,
                 snapshot, rasterized, ticks, btnDisabled, framesQueued, timersQueued>>
  /\ UNCHANGED <<editor, edLog>>

\* undo or redo that changes the drawing
UndoRedo(state) ==
  /\ editorState' = state
  /\ simulationActive' = FALSE
  /\ UNCHANGED <<cells, sources, potential, vx, vy, speed, flowModifier, converged,
                 particles, sourcePositions, snapshot, rasterized, lastOp, deaths, probe,
                 ticks, btnDisabled, framesQueued, timersQueued>>
  /\ UNCHANGED <<editor, edLog>>

\* a drawing edit on the canvas
Edit(state) ==
  /\ editorState' = state
  /\ UNCHANGED <<cells, sources, potential, vx, vy, speed, flowModifier, converged,
                 particles, sourcePositions, snapshot, rasterized, lastOp, deaths, probe,
                 ticks, simulationActive, btnDisabled, framesQueued, timersQueued>>
  /\ UNCHANGED <<editor, edLog>>

LoadAnyTemplate == \E template \in Templates : LoadTemplate(template)
UndoRedoAny == \E state \in EditorStates : UndoRedo(state)
EditAny == \E state \in EditorStates : Edit(state)
NextApp ==
  \/ ClickSimulate \/ LoadAnyTemplate \/ TimerFires \/ SimulationFrame \/ RenderFrame
  \/ ClearAll \/ UndoRedoAny \/ EditAny
SpecApp == Init /\ [][NextApp]_vars

\* ------------------------------------------------- one wall segment ----
\* room bounds that map a world unit to a cell, so that toGrid is the identity
\* on integer coordinates
UnitBounds == [x |-> 0, y |-> 0, width |-> width, height |-> height]

\* grid coordinates of segment ends, up to Margin cells outside the grid
LineCoordsX == (0 - Margin) .. (width - 1 + Margin)
LineCoordsY == (0 - Margin) .. (height - 1 + Margin)

LineSnapshot(x0, y0, x1, y1) ==
  [walls |-> <<Seg(x0, y0, x1, y1)>>, doors |-> << >>, windows |-> << >>,
   furniture |-> << >>, roomBounds |-> UnitBounds]

\* rasterize of a drawing that holds one wall segment
RasterizeLine ==
  /\ ~rasterized
  /\ \E x0 \in LineCoordsX, x1 \in LineCoordsX, y0 \in LineCoordsY, y1 \in LineCoordsY :
       Rasterize(LineSnapshot(x0, y0, x1, y1))
NextLine == RasterizeLine
SpecLine == Init /\ [][NextLine]_vars

\* ------------------------------------------- long-stagnant particles ----
\* A room that was rasterized and never solved holds no flow; a particle in it
\* only drifts. The behaviours start when a particle has drifted for about
\* StagnantLimit ticks, each by the drift of RandomDrift.
StillRoom == Snapshot(<< >>, <<DoorLeft>>, << >>, << >>)
StagnantTicks == {StagnantLimit - 1, StagnantLimit, StagnantLimit + 1}
StagnantCoords == {150, 250, 350, 450}
DriftStep == Quot(15 * 0 - 750, 100)

\* the particle at (x, y) after n ticks of update(1), all of them drift
driftedParticle(x, y, n) ==
  [x |-> x, y |-> y,
   trail |-> [k \in 1 .. trailLength |->
                <<x - DriftStep * (trailLength - k + 1), y - DriftStep * (trailLength - k + 1)>>],
   life |-> Max(0, LifeScale - ((n * LifeScale) \div 400))
            - (IF n > StagnantLimit THEN StagnantDecay ELSE 0),
   age |-> n,
   maxAge |-> 400,
   stagnantFrames |-> n]

InitStagnant ==
  \E x \in StagnantCoords, y \in StagnantCoords, n \in StagnantTicks :
    /\ GridIs(rasterize(NewGrid, StillRoom))
    /\ converged = FALSE
    /\ particles = <<driftedParticle(x, y, n)>>
    /\ sourcePositions = findSources(rasterize(NewGrid, StillRoom))
    /\ snapshot = StillRoom
    /\ rasterized = TRUE
    /\ lastOp = "update"
    /\ deaths = {}
    /\ probe = NoProbe
    /\ ticks = 0
    /\ AppInit
UpdateTick == Update(1)
NextStagnant == UpdateTick
SpecStagnant == InitStagnant /\ [][NextStagnant]_vars

\* ------------------------------------------------ the editor, driven ----
\* The events the app forwards to the editor, on an empty drawing. The mouse
\* is at one of two world points, both on the snap grid and farther apart
\* than any hit test reaches.
MousePoints == {Point(0, 0), Point(100, 0)}
Tools == {"select", "wall", "door", "window", "furniture", "erase"}
Keys == {"Escape", "Delete", "r"}
PlaceTypes == {"cabinet"}
EditorTemplate ==
  [walls |-> <<Seg(0, 0, 100, 0)>>, doors |-> <<Seg(0, 0, 0, 0), Seg(100, 0, 100, 0)>>,
   windows |-> << >>, furniture |-> << >>]

\* the handler starts with no snapshot saved
Fresh(e) == [e EXCEPT !.saved = FALSE]

Collection(e, type) ==
  CASE type = "wall" -> e.walls
    [] type = "door" -> e.doors
    [] type = "window" -> e.windows
    [] type = "furniture" -> e.furniture

\* what tells the object at a selection from the others: the id of a furniture
\* item, the coordinates of a segment
Identity(e, sel) ==
  IF sel.type = "furniture"
  THEN [type |-> sel.type, id |-> e.furniture[sel.index + 1].id, at |-> Seg(0, 0, 0, 0)]
  ELSE [type |-> sel.type, id |-> 0, at |-> Collection(e, sel.type)[sel.index + 1]]

\* one handler call: the editor it leaves, the call, the object picked by the
\* last select that hit something (select is true for the call of
\* _handleSelect), the furniture placed and the calls made so far
EditorStep(op, e, select) ==
  /\ edLog.calls < MaxCalls
  /\ editor' = e
  /\ edLog' = [op |-> op,
               picked |-> IF e.selectedItem = Null THEN Null
                          ELSE IF select THEN <<Identity(e, e.selectedItem[1])>>
                          ELSE edLog.picked,
               placed |-> edLog.placed + (Len(e.furniture) - Len(editor.furniture))
                            * (IF op = "mousedown" /\ editor.currentTool = "furniture"
                               THEN 1 ELSE 0),
               calls |-> edLog.calls + 1]
  /\ UNCHANGED <<cells, sources, potential, vx, vy, speed, flowModifier, converged,
                 particles, sourcePositions, snapshot, rasterized, lastOp, deaths, probe,
                 ticks, simulationActive, btnDisabled, framesQueued, timersQueued,
                 editorState>>

\* click on a tool button
SetTool == \E tool \in Tools : EditorStep("setTool", setTool(Fresh(editor), tool), FALSE)

\* click on an entry of the furniture catalog
PickFurniture ==
  \E type \in PlaceTypes :
    EditorStep("pick", [Fresh(editor) EXCEPT !.pendingFurnitureType = <<type>>], FALSE)

\* the click would add an item to a drawing that is full, or a furniture item
\* beyond the last id
Full ==
  /\ \/ editor.currentTool \in {"wall", "door", "window"} /\ editor.wallStart # Null
     \/ editor.currentTool = "furniture" /\ editor.pendingFurnitureType # Null
  /\ \/ Len(editor.walls) + Len(editor.doors) + Len(editor.windows)
          + Len(editor.furniture) >= MaxItems
     \/ editor.currentTool = "furniture" /\ edLog.placed >= MaxPlaced

\* mousedown on the canvas, left button
MouseDown ==
  /\ ~Full
  /\ \E p \in MousePoints :
       EditorStep("mousedown",
                  handleMouseDown(Fresh(editor), p.x, p.y, snapToGrid(p.x), snapToGrid(p.y),
                                  edLog.placed + 1),
                  editor.currentTool = "select")

MouseMove ==
  \E p \in MousePoints :
    LET r == handleMouseMove(Fresh(editor), p.x, p.y)
    IN EditorStep("mousemove", r.e, FALSE)

MouseUp ==
  LET r == handleMouseUp(Fresh(editor))
  IN EditorStep("mouseup", r.e, FALSE)

DoubleClick ==
  LET r == handleDoubleClick(Fresh(editor))
  IN EditorStep("dblclick", r.e, FALSE)

\* right click on the canvas
ContextMenu ==
  EditorStep("contextmenu",
             [Fresh(editor) EXCEPT !.wallStart = Null, !.selectedItem = Null], FALSE)

KeyDown ==
  \E key \in Keys :
    LET r == handleKeyDown(Fresh(editor), key)
    IN EditorStep(key, r.e, FALSE)

\* btn-undo, Ctrl+Z
EditorUndo ==
  LET r == undo(Fresh(editor))
  IN EditorStep("undo", r.e, FALSE)

\* btn-redo, Ctrl+Shift+Z, Ctrl+Y
EditorRedo ==
  LET r == redo(Fresh(editor))
  IN EditorStep("redo", r.e, FALSE)

\* btn-clear
EditorClearAll == EditorStep("clearAll", clearAll(Fresh(editor)), FALSE)

\* click on a template button
EditorLoadTemplate ==
  EditorStep("loadTemplate", loadTemplate(Fresh(editor), EditorTemplate), FALSE)

NextEditor ==
  \/ SetTool \/ PickFurniture \/ MouseDown \/ MouseMove \/ MouseUp \/ DoubleClick
  \/ ContextMenu \/ KeyDown \/ EditorUndo \/ EditorRedo \/ EditorClearAll
  \/ EditorLoadTemplate
SpecEditor == Init /\ [][NextEditor]_vars

\* ============================================================ claims =====
Ring == {i \in Cells : onBorder(i % width, i \div width)}

\* cell i is cell c or one of its four orthogonal neighbours
Adjacent(i, c) == Abs((i % width) - c[1]) + Abs((i \div width) - c[2]) <= 1

\* the cells a door or window callback reaches on the walks of segs
Reached(segs, rb) ==
  {i \in Cells : \E k \in 1 .. Len(segs) :
     \E n \in 1 .. Len(segmentLine(rb, segs[k])) : Adjacent(i, segmentLine(rb, segs[k])[n])}

Opened(state) ==
  Reached(state.doors, state.roomBounds) \cup Reached(state.windows, state.roomBounds)

NoSourceNoSpeed ==
  [][(lastOp' = "solve" /\ sources = Zeros) =>
       (speed' = Zeros /\ maxFrom(speed', 0, 0) = 0)]_vars

\* C2 amended: solve() on a grid whose sources and flow modifiers are all zero
\* leaves every speed zero and getMaxSpeed() zero.
NoSourceNoModifierNoSpeed ==
  [][(lastOp' = "solve" /\ sources = Zeros /\ flowModifier = Zeros) =>
       (speed' = Zeros /\ maxFrom(speed', 0, 0) = 0 /\ sources' = Zeros)]_vars

StillRoomSolved ==
  /\ lastOp = "solve"
  /\ sources = Zeros /\ flowModifier = Zeros /\ speed = Zeros
  /\ snapshot.walls # << >>
  /\ \E i \in Interior : cells[i] > 0 /\ cells[i] < Wall

\* C3: the arrays rasterize(s) leaves are those it leaves on a new grid,
\* whatever the grid held before the call.
RasterizeResets == lastOp = "rasterize" => GridIs(rasterize(NewGrid, snapshot))

RasterizedOverSolved ==
  /\ lastOp = "rasterize"
  /\ converged
  /\ snapshot.doors # << >>
  /\ snapshot.furniture # << >>
  /\ potential = Zeros /\ speed = Zeros

\* C4 as stated: solve() leaves cells, sources and flowModifier as they were.
SolveKeepsInputs ==
  [][lastOp' = "solve" =>
       (cells' = cells /\ sources' = sources /\ flowModifier' = flowModifier)]_vars

\* C4 amended: solve() leaves cells and flowModifier as they were; a source it
\* changes belongs to an open interior cell next to a wall that held no positive
\* source, there is a cell with source above 0.5, and the new source is
\* negative and is the cell's potential over 100.
SolveWritesOnlySinks ==
  [][lastOp' = "solve" =>
       /\ cells' = cells
       /\ flowModifier' = flowModifier
       /\ \A i \in Cells : sources'[i] # sources[i] =>
            /\ i \in Interior
            /\ cells[i] < Wall
            /\ nearWall(G, i)
            /\ sources[i] <= 0
            /\ sources'[i] < 0
            /\ sources'[i] = potential'[i]
            /\ \E j \in Interior : sources[j] > SpawnThreshold]_vars

SinksMarked ==
  /\ lastOp = "solve"
  /\ \E i \in Interior : sources[i] < 0 /\ potential[i] = sources[i]
  /\ \E i \in Interior : sources[i] > 0 /\ sources[i] < SpawnThreshold

\* the cell the first endpoint of a segment maps to, as rasterizeLine takes it
StartCell(rb, seg) == <<toGrid(rb, seg.x1, seg.y1).gx, toGrid(rb, seg.x1, seg.y1).gy>>

\* both endpoints of the segment map to the same grid cell
ZeroLength(rb, seg) == toGrid(rb, seg.x1, seg.y1) = toGrid(rb, seg.x2, seg.y2)

OnePoint(segs, rb) ==
  \A k \in 1 .. Len(segs) :
    ZeroLength(rb, segs[k]) => segmentLine(rb, segs[k]) = << StartCell(rb, segs[k]) >>

\* C10: the walk of a wall, door or window whose endpoints map to one cell is
\* that cell, once; alone in a room, such a wall makes the cell and its four
\* neighbours wall, such a door or window opens them with its two strengths.
ZeroLengthIsPoint ==
  rasterized =>
    /\ OnePoint(snapshot.walls, snapshot.roomBounds)
    /\ OnePoint(snapshot.doors, snapshot.roomBounds)
    /\ OnePoint(snapshot.windows, snapshot.roomBounds)
    /\ \A k \in 1 .. Len(snapshot.walls) :
         ZeroLength(snapshot.roomBounds, snapshot.walls[k]) =>
           \A i \in Cells \ Opened(snapshot) :
             Adjacent(i, StartCell(snapshot.roomBounds, snapshot.walls[k])) => cells[i] = Wall
    /\ (Len(snapshot.doors) = 1 /\ snapshot.windows = << >> /\ snapshot.furniture = << >>
        /\ ZeroLength(snapshot.roomBounds, snapshot.doors[1]) /\ lastOp = "rasterize") =>
         \A i \in Cells :
           /\ sources[i] = IF ~Adjacent(i, StartCell(snapshot.roomBounds, snapshot.doors[1])) THEN 0
                           ELSE IF <<i % width, i \div width>> =
                                   StartCell(snapshot.roomBounds, snapshot.doors[1])
                                THEN DoorStrong ELSE DoorWeak
           /\ Adjacent(i, StartCell(snapshot.roomBounds, snapshot.doors[1])) => cells[i] = 0
    /\ (Len(snapshot.windows) = 1 /\ snapshot.doors = << >> /\ snapshot.furniture = << >>
        /\ ZeroLength(snapshot.roomBounds, snapshot.windows[1]) /\ lastOp = "rasterize") =>
         \A i \in Cells :
           /\ sources[i] = IF ~Adjacent(i, StartCell(snapshot.roomBounds, snapshot.windows[1])) THEN 0
                           ELSE IF <<i % width, i \div width>> =
                                   StartCell(snapshot.roomBounds, snapshot.windows[1])
                                THEN WindowStrong ELSE WindowWeak
           /\ Adjacent(i, StartCell(snapshot.roomBounds, snapshot.windows[1])) => cells[i] = 0

PointSegmentsDrawn ==
  /\ lastOp = "rasterize"
  /\ \E k \in 1 .. Len(snapshot.walls) :
       /\ ZeroLength(snapshot.roomBounds, snapshot.walls[k])
       /\ snapshot.walls[k].x1 # snapshot.walls[k].x2
       /\ \E i \in Interior : Adjacent(i, StartCell(snapshot.roomBounds, snapshot.walls[k]))
                              /\ cells[i] = Wall
  /\ Len(snapshot.doors) = 1 /\ ZeroLength(snapshot.roomBounds, snapshot.doors[1])
  /\ Cardinality({i \in Cells : sources[i] = DoorStrong}) = 1
  /\ Cardinality({i \in Cells : sources[i] = DoorWeak}) = 4

\* the stored velocity of cell (x, y), zero outside the grid
StoredOrZero(x, y) ==
  IF x >= 0 /\ x < width /\ y >= 0 /\ y < height
  THEN [vx |-> vx[y * width + x], vy |-> vy[y * width + x]]
  ELSE [vx |-> 0, vy |-> 0]

\* C5: at integer coordinates inside the grid, the last column and the last row
\* included, getVelocityAt returns the stored velocity of the cell, which is
\* what getVelocity returns.
SamplerExact ==
  (probe.asked /\ probe.fx % PosScale = 0 /\ probe.fy % PosScale = 0
   /\ inBounds(Floor(probe.fx), Floor(probe.fy))) =>
     /\ probe.at = probe.cell
     /\ probe.at = StoredOrZero(probe.fx \div PosScale, probe.fy \div PosScale)

SampledAtCell ==
  /\ probe.asked
  /\ probe.fx % PosScale = 0 /\ probe.fy % PosScale = 0
  /\ inBounds(Floor(probe.fx), Floor(probe.fy))
  /\ probe.at.vx # 0 /\ probe.at.vy # 0
  /\ StoredOrZero(Floor(probe.fx) + 1, Floor(probe.fy)) # probe.at

\* the bilinear blend of four corner values with weights sx, sy out of PosScale
Blend(v00, v10, v01, v11, sx, sy) ==
  Quot((PosScale - sx) * (PosScale - sy) * v00 + sx * (PosScale - sy) * v10 +
       (PosScale - sx) * sy * v01 + sx * sy * v11, PosScale * PosScale)

\* C6: getVelocity and getSpeed return zero outside the grid; getVelocityAt
\* blends the four enclosing cells with every cell outside the grid taken as
\* zero, and returns (0, 0) when all four are outside.
OutOfBoundsZero ==
  probe.asked =>
    LET x0 == Floor(probe.fx)
        y0 == Floor(probe.fy)
        sx == probe.fx - x0 * PosScale
        sy == probe.fy - y0 * PosScale
    IN /\ ~inBounds(x0, y0) => (probe.cell = [vx |-> 0, vy |-> 0] /\ probe.cellSpeed = 0)
       /\ probe.at.vx = Blend(StoredOrZero(x0, y0).vx, StoredOrZero(x0 + 1, y0).vx,
                              StoredOrZero(x0, y0 + 1).vx, StoredOrZero(x0 + 1, y0 + 1).vx,
                              sx, sy)
       /\ probe.at.vy = Blend(StoredOrZero(x0, y0).vy, StoredOrZero(x0 + 1, y0).vy,
                              StoredOrZero(x0, y0 + 1).vy, StoredOrZero(x0 + 1, y0 + 1).vy,
                              sx, sy)
       /\ (\A dx \in {0, 1}, dy \in {0, 1} : ~inBounds(x0 + dx, y0 + dy)) =>
            probe.at = [vx |-> 0, vy |-> 0]

\* a query outside the grid whose flat index is that of a cell of another row
\* that holds a velocity
SampledOutside ==
  /\ probe.asked
  /\ ~inBounds(Floor(probe.fx), Floor(probe.fy))
  /\ idx(Floor(probe.fx), Floor(probe.fy)) \in Cells
  /\ vx[idx(Floor(probe.fx), Floor(probe.fy))] # 0
  /\ probe.cell = [vx |-> 0, vy |-> 0]

\* C7: the particle list never holds more than maxParticles particles, and
\* after every update() made while findSources() has found a source cell it
\* holds exactly maxParticles.
PopulationAtCap ==
  /\ Len(particles) <= maxParticles
  /\ (lastOp = "update" /\ sourcePositions # << >>) => Len(particles) = maxParticles

PopulationHeldAcrossDeaths ==
  /\ lastOp = "update"
  /\ ticks = MaxTicks
  /\ sourcePositions # << >>
  /\ \E e \in deaths : e.replaced
  /\ Len(particles) = maxParticles

\* slot k of the list holds a particle as spawnParticle() makes it, within the
\* jitter of 1.5 cells of a cell findSources() recorded
FreshNearSource(k) ==
  /\ k \in 1 .. Len(particles)
  /\ particles[k].age = 0
  /\ particles[k].life = LifeScale
  /\ particles[k].trail = << >>
  /\ particles[k].stagnantFrames = 0
  /\ \E n \in 1 .. Len(sourcePositions) :
       /\ sourcePositions[n].strength > SpawnThreshold
       /\ 2 * Abs(particles[k].x - sourcePositions[n].x * PosScale) <= SpawnJitter * PosScale
       /\ 2 * Abs(particles[k].y - sourcePositions[n].y * PosScale) <= SpawnJitter * PosScale

\* C8 as stated: when update() returns, the slot of every particle whose life
\* reached 0 in it holds a new particle near a recorded source cell.
DeadSlotRespawned ==
  lastOp = "update" =>
    \A e \in deaths : e.cause = "life" => (e.replaced /\ FreshNearSource(e.slot))

\* C8 amended: that holds when the last findSources() recorded a source cell;
\* when it recorded none, the particle is removed and nothing takes its slot.
DeadSlotRespawnedOrRemoved ==
  lastOp = "update" =>
    \A e \in deaths : e.cause = "life" =>
      IF sourcePositions # << >>
      THEN e.replaced /\ FreshNearSource(e.slot)
      ELSE ~e.replaced /\ Len(particles) < maxParticles

DiedOfLifeAndRespawned ==
  /\ lastOp = "update"
  /\ \E e \in deaths : e.cause = "life" /\ e.replaced /\ FreshNearSource(e.slot)

\* C9: with no source above the spawn threshold, reset() and findSources()
\* record no source cell and reset() empties the list; from there every
\* update() leaves the list empty, the recorded cells empty and the grid as is.
NoSourceNoParticles ==
  [][/\ (lastOp' \in {"reset", "findSources"} /\ \A i \in Cells : sources[i] <= SpawnThreshold)
          => sourcePositions' = << >>
     /\ lastOp' = "reset" => particles' = << >>
     /\ (lastOp' = "update" /\ particles = << >> /\ sourcePositions = << >>)
          => (particles' = << >> /\ sourcePositions' = << >> /\ deaths' = {}
              /\ gridVars' = gridVars)]_vars

IdleWithWeakSources ==
  /\ lastOp = "update"
  /\ ticks = MaxTicks
  /\ particles = << >>
  /\ sourcePositions = << >>
  /\ converged
  /\ \E i \in Cells : sources[i] > 0

\* C11: after solve() the potential of every cell with a positive source is
\* the source times 100, and that of every sink is the sink strength: the
\* sweeps leave the cells with a nonzero source as initialised.
SourcesClamped ==
  lastOp = "solve" => \A i \in Cells : sources[i] # 0 => potential[i] = sources[i]

ClampedAmongRelaxed ==
  /\ lastOp = "solve"
  /\ \E i \in Interior :
       /\ sources[i] > 0 /\ flowModifier[i] # 0 /\ potential[i] = sources[i]
       /\ potential[i + 1] # 0 /\ potential[i + 1] # potential[i] /\ sources[i + 1] = 0

\* C12: after solve() every wall cell, on the ring or inside, has vx, vy and
\* speed 0 and the potential the initialisation gave it.
WallsCarryNoFlow ==
  lastOp = "solve" =>
    \A i \in Cells : cells[i] >= Wall =>
      /\ vx[i] = 0 /\ vy[i] = 0 /\ speed[i] = 0
      /\ potential[i] = IF sources[i] > 0 THEN sources[i] ELSE 0

WallBetweenPotentials ==
  /\ lastOp = "solve"
  /\ rasterized
  /\ \E i \in Interior : cells[i] >= Wall /\ potential[i - 1] # potential[i + 1] /\ vx[i] = 0

\* the slots the last update() refilled through _respawn
Respawned == {e.slot : e \in {d \in deaths : d.replaced}}

Alive(p) == p.life > 0 /\ p.age <= p.maxAge /\ inBounds(Floor(p.x), Floor(p.y))

\* C13 as stated: when update() returns, every particle of the list has
\* life > 0, age <= maxAge and a floor cell inside the grid.
NoDeadParticle ==
  lastOp = "update" => \A k \in 1 .. Len(particles) : Alive(particles[k])

\* C13 amended: that holds of every particle update() did not respawn; a
\* respawned one has life 1 and age 0, wherever it was placed.
NoDeadParticleButRespawned ==
  lastOp = "update" =>
    \A k \in 1 .. Len(particles) :
      IF k \in Respawned
      THEN particles[k].life = LifeScale /\ particles[k].age = 0
      ELSE Alive(particles[k])

RespawnedOutside ==
  /\ lastOp = "update"
  /\ \E k \in 1 .. Len(particles) :
       k \in Respawned /\ ~inBounds(Floor(particles[k].x), Floor(particles[k].y))

\* C14: particles.update() runs only while simulationActive, on the grid that
\* rasterize and solve made of the last simulated drawing, and with the source
\* list that findSources() takes from that grid.
UpdateOnSolvedGrid ==
  [][ticks' # ticks =>
       /\ simulationActive
       /\ rasterized /\ converged
       /\ GridIs(solve(rasterize(NewGrid, snapshot)))
       /\ sourcePositions = findSources(G)]_vars

UpdatedWhileFrameQueued ==
  /\ lastOp = "update"
  /\ simulationActive
  /\ framesQueued > 0
  /\ editorState # snapshot
  /\ particles # << >>

\* the drawing without its furniture
Unfurnished(state) == [state EXCEPT !.furniture = << >>]

\* the interior cells of the grid bounding box of a furniture item
Footprint(item, rb) ==
  {i \in Interior :
     /\ i % width >= toGrid(rb, item.x, item.y).gx
     /\ i % width <= toGrid(rb, item.x + item.width, item.y + item.height).gx
     /\ i \div width >= toGrid(rb, item.x, item.y).gy
     /\ i \div width <= toGrid(rb, item.x + item.width, item.y + item.height).gy}

PlainObstacle(item) == item.type \notin {"mirror", "plant", "rug"} /\ ~item.poisonArrow

\* C15: in a room with a door and sinks, the speed solve() leaves in every cell
\* under a furniture item of resistance 0.9 is strictly less than the speed it
\* leaves in that cell when the same room is rasterized without the item.
ObstacleAttenuates ==
  (/\ lastOp = "solve"
   /\ snapshot.doors # << >>
   /\ Len(snapshot.furniture) = 1
   /\ PlainObstacle(snapshot.furniture[1])
   /\ snapshot.furniture[1].flowResistance = 900
   /\ \E i \in Interior : sources[i] < 0) =>
     \A i \in Footprint(snapshot.furniture[1], snapshot.roomBounds) :
       speed[i] < solve(rasterize(NewGrid, Unfurnished(snapshot))).speed[i]

ObstacleInFlow ==
  /\ lastOp = "solve"
  /\ snapshot.doors # << >>
  /\ Len(snapshot.furniture) = 1
  /\ PlainObstacle(snapshot.furniture[1])
  /\ snapshot.furniture[1].flowResistance = 900
  /\ \E i \in Interior : sources[i] < 0
  /\ \A i \in Footprint(snapshot.furniture[1], snapshot.roomBounds) :
       cells[i] = 900 /\ speed[i] > 0
  /\ Cardinality(Footprint(snapshot.furniture[1], snapshot.roomBounds)) = 4

\* a footprint cell that the interior wall occupied carries flow once the
\* furniture has overwritten its material
ObstacleOverWall ==
  /\ lastOp = "solve"
  /\ Len(snapshot.furniture) = 1
  /\ PlainObstacle(snapshot.furniture[1])
  /\ snapshot.furniture[1].flowResistance = 900
  /\ \E i \in Footprint(snapshot.furniture[1], snapshot.roomBounds) :
       /\ rasterize(NewGrid, Unfurnished(snapshot)).cells[i] = Wall
       /\ cells[i] = 900
       /\ speed[i] > 0

\* the in-bounds cells a walk visits
OnLine(line) ==
  {i \in Cells : \E n \in 1 .. Len(line) : line[n] = <<i % width, i \div width>>}

\* the in-bounds orthogonal neighbours of visited cells that are not visited
BesideLine(line) ==
  {i \in Cells : \E n \in 1 .. Len(line) : Adjacent(i, line[n])} \ OnLine(line)

\* C17: after rasterizing a single door, with no window and no furniture in
\* the drawing, every in-bounds cell of the door's walk has the strong source
\* 1.0 and every in-bounds orthogonal neighbour off the walk has the weak 0.8.
DoorLineStrong ==
  (/\ lastOp = "rasterize"
   /\ Len(snapshot.doors) = 1
   /\ snapshot.windows = << >>
   /\ snapshot.furniture = << >>) =>
     LET line == segmentLine(snapshot.roomBounds, snapshot.doors[1])
     IN /\ \A i \in OnLine(line) : sources[i] = DoorStrong
        /\ \A i \in BesideLine(line) : sources[i] = DoorWeak

\* an axis-aligned door of two cells: the callback of the second cell has
\* rewritten the first with the weak strength
DoorLineWeakened ==
  /\ lastOp = "rasterize"
  /\ snapshot.doors = <<DoorLeft>>
  /\ snapshot.windows = << >>
  /\ snapshot.furniture = << >>
  /\ segmentLine(snapshot.roomBounds, snapshot.doors[1]) = << <<0, 2>>, <<0, 3>> >>
  /\ sources[idx(0, 2)] = DoorWeak
  /\ sources[idx(0, 3)] = DoorStrong

\* the drawing with its walls only
WallsOnly(state) == [state EXCEPT !.doors = << >>, !.windows = << >>]

\* C18: for a drawing without furniture, after rasterize every in-bounds cell
\* of a door or window walk and every in-bounds orthogonal neighbour of one is
\* open (material 0) and a source (> 0), whatever walls cross those cells.
OpeningsCutWalls ==
  (rasterized /\ snapshot.furniture = << >>) =>
    \A i \in Opened(snapshot) : cells[i] = 0 /\ sources[i] > 0

\* an opening whose cells an interior wall segment had filled
OpeningThroughInteriorWall ==
  /\ rasterized
  /\ snapshot.furniture = << >>
  /\ snapshot.walls # << >>
  /\ \E i \in Opened(snapshot) \cap Interior :
       /\ rasterize(NewGrid, WallsOnly(snapshot)).cells[i] = Wall
       /\ cells[i] = 0
       /\ sources[i] > 0

\* the walk of the k-th wall segment of the drawing and its two ends
WallStart(k) == toGrid(snapshot.roomBounds, snapshot.walls[k].x1, snapshot.walls[k].y1)
WallEnd(k) == toGrid(snapshot.roomBounds, snapshot.walls[k].x2, snapshot.walls[k].y2)
WallWalk(k) == segmentLine(snapshot.roomBounds, snapshot.walls[k])

\* C19: for every pair of integer end cells, inside or outside the grid, the
\* walk of rasterizeLine ends, begins on the start cell, finishes on the end
\* cell, moves by at most 1 in x and in y between consecutive cells and visits
\* exactly max(|x1-x0|, |y1-y0|) + 1 cells; after the wall pass every in-bounds
\* visited cell and each of its in-bounds orthogonal neighbours is wall.
LineWalkCorrect ==
  (/\ lastOp = "rasterize"
   /\ snapshot.doors = << >>
   /\ snapshot.windows = << >>
   /\ snapshot.furniture = << >>) =>
     \A k \in 1 .. Len(snapshot.walls) :
       LET a == WallStart(k)
           b == WallEnd(k)
           line == WallWalk(k)
       IN /\ Len(line) = Max(Abs(b.gx - a.gx), Abs(b.gy - a.gy)) + 1
          /\ line[1] = <<a.gx, a.gy>>
          /\ line[Len(line)] = <<b.gx, b.gy>>
          /\ \A n \in 1 .. Len(line) - 1 :
               /\ Abs(line[n + 1][1] - line[n][1]) <= 1
               /\ Abs(line[n + 1][2] - line[n][2]) <= 1
          /\ \A i \in Cells :
               (\E n \in 1 .. Len(line) : Adjacent(i, line[n])) => cells[i] = Wall

\* a slanted segment that starts outside the grid and ends in its interior
SlantedWalkFromOutside ==
  /\ lastOp = "rasterize"
  /\ Len(snapshot.walls) = 1
  /\ snapshot.doors = << >> /\ snapshot.windows = << >> /\ snapshot.furniture = << >>
  /\ ~inBounds(WallStart(1).gx, WallStart(1).gy)
  /\ inBounds(WallEnd(1).gx, WallEnd(1).gy)
  /\ idx(WallEnd(1).gx, WallEnd(1).gy) \in Interior
  /\ Abs(WallEnd(1).gy - WallStart(1).gy) > 1
  /\ Abs(WallEnd(1).gx - WallStart(1).gx) > Abs(WallEnd(1).gy - WallStart(1).gy)
  /\ Len(WallWalk(1)) = Abs(WallEnd(1).gx - WallStart(1).gx) + 1
  /\ cells[idx(WallEnd(1).gx, WallEnd(1).gy)] = Wall
  /\ \E i \in Interior : cells[i] = 0

\* C20: a furniture item that is not a mirror, plant or rug and whose
\* resistance r satisfies 0 <= r < 1 leaves material r, r = 0 included, in every
\* interior cell of its grid bounding box, and changes the material of no cell
\* of the outer ring.
ResistanceAsGiven ==
  (/\ rasterized
   /\ Len(snapshot.furniture) = 1
   /\ snapshot.furniture[1].type \notin {"mirror", "plant", "rug"}
   /\ snapshot.furniture[1].flowResistance >= 0
   /\ snapshot.furniture[1].flowResistance < Wall) =>
     /\ \A i \in Footprint(snapshot.furniture[1], snapshot.roomBounds) :
          cells[i] = snapshot.furniture[1].flowResistance
     /\ \A i \in Ring : cells[i] = rasterize(NewGrid, Unfurnished(snapshot)).cells[i]

\* an item of resistance 0 has left the default 0.8 under its bounding box
ZeroResistanceDefaulted ==
  /\ rasterized
  /\ Len(snapshot.furniture) = 1
  /\ snapshot.furniture[1].type = "bookshelf"
  /\ snapshot.furniture[1].flowResistance = 0
  /\ Footprint(snapshot.furniture[1], snapshot.roomBounds) # {}
  /\ \A i \in Footprint(snapshot.furniture[1], snapshot.roomBounds) :
       cells[i] = DefaultResistance

\* the interior cells that hold a source above 0.5, their number and the sums
\* of their coordinates (the centroid is the sums over the number)
Doors == {i \in Interior : sources[i] > SpawnThreshold}
DoorN == Cardinality(Doors)
DoorX == SumOver(Doors, TRUE)
DoorY == SumOver(Doors, FALSE)

\* the squared distance of cell i from the centroid, times DoorN squared
Dist2(i) ==
  ((i % width) * DoorN - DoorX) * ((i % width) * DoorN - DoorX) +
  ((i \div width) * DoorN - DoorY) * ((i \div width) * DoorN - DoorY)
Diag2 == width * width + height * height

\* open interior cell next to a wall, farther from the centroid than 0.3 of
\* the diagonal: 100 * dist^2 > 9 * diagonal^2
FarWallCell(i) ==
  /\ i \in Interior
  /\ cells[i] < Wall
  /\ \E j \in {i - 1, i + 1, i - width, i + width} : cells[j] >= Wall
  /\ 100 * Dist2(i) > 9 * DoorN * DoorN * Diag2

\* C21: after solve(), with no interior cell of source above 0.5 there is no
\* sink; otherwise the sinks are exactly the open interior cells without
\* positive source that touch a wall and lie farther from the centroid of the
\* cells of source above 0.5 than 0.3 of the diagonal, each sink's potential
\* is -8 * (distance / diagonal)^2, and of two sinks the farther is the lower.
SinkPlacementRule ==
  lastOp = "solve" =>
    /\ DoorN = 0 => \A i \in Cells : sources[i] >= 0
    /\ DoorN > 0 =>
         /\ \A i \in Cells : sources[i] < 0 <=> (FarWallCell(i) /\ sources[i] <= 0)
         /\ \A i \in Cells : sources[i] < 0 =>
              potential[i] = Quot(-800 * Dist2(i), DoorN * DoorN * Diag2)
         /\ \A i, j \in Cells :
              (sources[i] < 0 /\ sources[j] < 0 /\ Dist2(i) > Dist2(j)) =>
                potential[i] < potential[j]

\* sinks at different distances, an open cell by the wall too near to be one,
\* and a far cell by the wall that keeps its positive source
SinksFarFromDoor ==
  /\ lastOp = "solve"
  /\ DoorN > 1
  /\ \E i, j \in Interior : sources[i] < 0 /\ sources[j] < 0 /\ Dist2(i) > Dist2(j)
  /\ \E i \in Interior :
       /\ cells[i] < Wall /\ sources[i] = 0
       /\ \E j \in {i - 1, i + 1, i - width, i + width} : cells[j] >= Wall
  /\ \E i \in Interior : FarWallCell(i) /\ sources[i] > 0

\* a solved room whose only sources are weak: no sink
WeakSourcesNoSink ==
  /\ lastOp = "solve"
  /\ DoorN = 0
  /\ \E i \in Interior : sources[i] > 0

\* the slots an update removed and the slots it refilled; a slot is numbered
\* as in the list after the spawn loop, which the loop walks from its end
RemovedIn(events) == {e.slot : e \in {d \in events : ~d.replaced}}
RefilledIn(events) == {e.slot : e \in {d \in events : d.replaced}}

\* where the particle of slot i stands once the slots of R below it are gone
SlotAfter(i, R) == i - Cardinality({r \in R : r < i})

\* the last n entries of a sequence
LastN(t, n) == IF Len(t) > n THEN SubSeq(t, Len(t) - n + 1, Len(t)) ELSE t

SpawnOffsets == {-100, 0, 100}

\* particles spawnParticle() can return at those offsets
Spawnable ==
  {[newParticle(sourcePositions[k], 50, 50, ra, SpawnJitter)
      EXCEPT !.x = @ + ox, !.y = @ + oy] :
     k \in 1 .. Len(sourcePositions), ox \in SpawnOffsets, oy \in SpawnOffsets,
     ra \in RandomAge}

\* the particles the next update(dt) can move: those of the list and those it
\* can spawn, on an open cell of the grid
Movable ==
  {p \in {particles[j] : j \in 1 .. Len(particles)} \cup Spawnable :
     inBounds(Floor(p.x), Floor(p.y)) /\ ~isWall(G, Floor(p.x), Floor(p.y))}

\* the largest squared norm of a stored velocity
MaxNorm2 == maxFrom([i \in Cells |-> vx[i] * vx[i] + vy[i] * vy[i]], 0, 0)

\* n * n as <<millions, rest>>, for 0 <= n < 1000000, without leaving the
\* 32-bit integers of the model checker
Square(n) ==
  LET h == n \div 1000
      l == n % 1000
      t == 2 * h * l * 1000 + l * l
  IN <<h * h + t \div 1000000, t % 1000000>>

\* a * a + b * b <= c * c
SumOfSquaresLeq(a, b, c) ==
  LET lo == Square(a)[2] + Square(b)[2]
      hi == Square(a)[1] + Square(b)[1] + lo \div 1000000
  IN \/ hi < Square(c)[1]
     \/ hi = Square(c)[1] /\ lo % 1000000 <= Square(c)[2]

\* the step from p to q is no longer than len hundredths of a cell
StepWithin(p, q, len) == SumOfSquaresLeq(Abs(q.x - p.x), Abs(q.y - p.y), len)

\* the step is the drift of update(): at most 0.075 cells along each axis
DriftOnly(p, q) ==
  /\ q.stagnantFrames = p.stagnantFrames + 1
  /\ 100 * Abs(q.x - p.x) <= 750
  /\ 100 * Abs(q.y - p.y) <= 750

StagnationDecayLinear ==
  [][(ticks' # ticks /\ deaths' = {}) =>
       \A j \in 1 .. Len(particles) :
         LET p == particles[j]
             q == particles'[j]
             vel == getVelocityAt(G, p.x, p.y)
             base == Max(0, LifeScale - ((q.age * LifeScale) \div q.maxAge))
         IN /\ q.stagnantFrames =
                 IF vel.vx # 0 \/ vel.vy # 0 THEN 0 ELSE p.stagnantFrames + 1
            /\ q.stagnantFrames > StagnantLimit =>
                 q.life = base - StagnantDecay * (q.stagnantFrames - StagnantLimit)]_vars

\* a particle two ticks above the threshold whose life is the age-based value
\* less 0.02, once
StagnantTwiceDecayedOnce ==
  /\ lastOp = "update"
  /\ ticks > 0
  /\ \E j \in 1 .. Len(particles) :
       /\ particles[j].stagnantFrames = StagnantLimit + 2
       /\ particles[j].age = StagnantLimit + 2
       /\ particles[j].life =
            LifeScale - ((particles[j].age * LifeScale) \div particles[j].maxAge) - StagnantDecay

\* C25: solve() on the grid that solve() has left gives that grid again: the
\* same sinks (sources), potential, vx, vy and speed.
SolveIdempotent == lastOp = "solve" => solve(G) = G

\* a solved room with sinks and flow in which the sweeps have not yet reached
\* the fixed point of the relaxation
SolvedShortOfFixedPoint ==
  /\ lastOp = "solve"
  /\ \E i \in Interior : sources[i] < 0
  /\ \E i \in Interior : speed[i] > 0
  /\ \E i \in Interior :
       /\ cells[i] = 0 /\ sources[i] = 0 /\ flowModifier[i] = 0
       /\ potential[i] # Quot(potential[i - 1] + potential[i + 1] +
                               potential[i - width] + potential[i + width], 4)

\* the interior cells a wall segment of the drawing marks as wall
WalledInterior(state) ==
  {i \in Interior : \E k \in 1 .. Len(state.walls) :
     \E n \in 1 .. Len(segmentLine(state.roomBounds, state.walls[k])) :
       Adjacent(i, segmentLine(state.roomBounds, state.walls[k])[n])}

\* C26: after rasterize every interior cell that a wall segment marked and no
\* door or window carve touched has material 1, whatever furniture overlaps it.
FurnitureKeepsWalls ==
  rasterized => \A i \in WalledInterior(snapshot) \ Opened(snapshot) : cells[i] = Wall

\* a cabinet over the interior wall has left its resistance in a wall cell
WallUnderCabinet ==
  /\ rasterized
  /\ snapshot.walls = <<WallMid>>
  /\ Len(snapshot.furniture) = 1
  /\ snapshot.furniture[1].type = "cabinet"
  /\ \E i \in WalledInterior(snapshot) \ Opened(snapshot) :
       /\ i \in Footprint(snapshot.furniture[1], snapshot.roomBounds)
       /\ cells[i] = 900

\* C27: after rasterize and after solve() no cell of material >= 1 holds a
\* nonzero source, and after solve() every such cell has potential 0.
WallsNeverSources ==
  rasterized =>
    \A i \in Cells : cells[i] >= Wall =>
      /\ sources[i] = 0
      /\ lastOp = "solve" => potential[i] = 0

\* a mirror over the interior wall: a wall cell with the mirror's source, which
\* solve() has turned into a potential
MirrorSourceInWall ==
  /\ lastOp = "solve"
  /\ snapshot.walls = <<WallMid>>
  /\ Len(snapshot.furniture) = 1
  /\ snapshot.furniture[1].type = "mirror"
  /\ \E i \in Footprint(snapshot.furniture[1], snapshot.roomBounds) :
       /\ cells[i] = Wall
       /\ sources[i] = MirrorSource
       /\ potential[i] = MirrorSource

\* C30: whenever simulationActive is true, the grid was rasterized and solved
\* from the walls, doors, windows and furniture the editor holds now.
DisplayedNeverStale ==
  simulationActive =>
    /\ rasterized
    /\ converged
    /\ snapshot = editorState

\* the particles of a finished simulation are updated on a grid that was
\* computed from a drawing the editor no longer holds
StaleGridAnimated ==
  /\ simulationActive
  /\ rasterized
  /\ snapshot # editorState
  /\ lastOp = "update"
  /\ particles # << >>

\* C28: after a handler that called saveState, undo() returns true and restores
\* walls, doors, windows and furniture to their values before the handler, and
\* a following redo() returns true and restores their values after it; the
\* handler leaves the redo stack empty; undo() and redo() on an empty stack
\* return false and change nothing; the undo stack never holds more than
\* undoLimit snapshots.
UndoRedoRoundTrip ==
  [][/\ editor'.saved =>
          /\ undo(editor').ret
          /\ Scene(undo(editor').e) = Scene(editor)
          /\ redo(undo(editor').e).ret
          /\ Scene(redo(undo(editor').e).e) = Scene(editor')
          /\ editor'.redoStack = << >>
     /\ editor'.undoStack = << >> => undo(editor') = [e |-> editor', ret |-> FALSE]
     /\ editor'.redoStack = << >> => redo(editor') = [e |-> editor', ret |-> FALSE]
     /\ Len(editor'.undoStack) <= undoLimit]_vars

\* a handler has saved the drawing onto a full undo stack and changed it
SavedOntoFullStack ==
  /\ editor.saved
  /\ Len(editor.undoStack) = undoLimit
  /\ editor.undoStack[Len(editor.undoStack)] # snapshotOf(editor)
  /\ edLog.calls > undoLimit

\* C29: whenever selectedItem is not null, its index is a valid index into the
\* collection its type names, and the object there is the one the last select
\* picked.
SelectionStaysValid ==
  editor.selectedItem # Null =>
    /\ editor.selectedItem[1].index < Len(Collection(editor, editor.selectedItem[1].type))
    /\ edLog.picked = <<Identity(editor, editor.selectedItem[1])>>

\* an undo has put another object at the selected index, and Delete removes it
\* and keeps the object that was picked
StaleSelectionDeletesAnother ==
  /\ edLog.op = "undo"
  /\ editor.selectedItem # Null
  /\ editor.selectedItem[1].index < Len(Collection(editor, editor.selectedItem[1].type))
  /\ edLog.picked # <<Identity(editor, editor.selectedItem[1])>>
  /\ LET after == handleKeyDown(editor, "Delete").e
         type == editor.selectedItem[1].type
     IN /\ Len(Collection(after, type)) < Len(Collection(editor, type))
        /\ \A k \in 1 .. Len(Collection(after, type)) :
             Collection(after, type)[k] # Collection(editor, type)[editor.selectedItem[1].index + 1]

====
